---- MODULE Spec2Model ----
(***************************************************************************)
(* A model of mem_dbg: the recursive size engine (MemSize), the derive     *)
(* layer's generated implementations and the debug-tree renderer (MemDbg). *)
(*                                                                         *)
(* A value is a record whose field k names its Rust type constructor.  A   *)
(* pointer (reference, Rc, Arc) holds the numeric address it compares by   *)
(* (addr) and the heap cell it points to (to); the heap is a function from *)
(* cells to values, so aliasing and cycles are expressible.                *)
(***************************************************************************)
EXTENDS Integers, Sequences, FiniteSets, TLC

VARIABLES
    sync,       \* a lock of the value, the thread using it, the traversal's position
    build,      \* what the compiler chose: field placement, overflow checks
    input,      \* the declaration a derive directive is applied to
    output,     \* what the directive expanded to
    sink,       \* the writer: how many writes it accepts before it fails
    heap,      \* the pointees: cell -> value
    root,      \* the value the calls are made on
    last,      \* the last mem_size call: its flags and what it returned
    prev,      \* the mem_size call before it
    table,     \* the visited-address table the last traversal left behind
    dbg        \* the last rendering call: its arguments and what it wrote

vars == <<heap, root, last, prev, table, dbg, sink, input, output, build, sync>>

\* the compile-time state: untouched by the calls made at run time
expansion == <<input, output, build>>

\* ------------------------------------------------------------------ bounds

MaxHandles == 3
MaxLen == 2
MaxSlack == 2
MaxFields == 2
MaxDepthArg == 4
MaxDeclFields == 3
MaxVariants == 2
MaxTurns == 2
MaxWrites == 16
MaxSetLen == 15
MaxTreeLen == 13

\* ------------------------------------------------------- program constants

PtrSize == 8
UsizeMax == 2147483647
GuardSize == 16
MutexMeta == 5
RwLockMeta == 9
VecHeader == 24
VecDequeHeader == 32
StringHeader == 24
RcCounts == 16
BigPayload == 1000
HashSetHeader == 48
GROUP_WIDTH == 16
BTreeHeader == 24
B == 6
NodeCapacity == 2 * B - 1
NodeHeader == 16

FOLLOW_REFS == "FOLLOW_REFS"
CAPACITY == "CAPACITY"
FOLLOW_RC == "FOLLOW_RC"
SizeFlags == SUBSET {FOLLOW_REFS, CAPACITY, FOLLOW_RC}

\* ------------------------------------------------------------------ helpers

Max(a, b) == IF a >= b THEN a ELSE b

AlignUp(size, align) == ((size + align - 1) \div align) * align

RECURSIVE SumSeq(_)
SumSeq(s) == IF s = <<>> THEN 0 ELSE Head(s) + SumSeq(Tail(s))

RECURSIVE MaxSeq(_)
MaxSeq(s) == IF s = <<>> THEN 1 ELSE Max(Head(s), MaxSeq(Tail(s)))

RECURSIVE SumValues(_)
SumValues(f) ==
    IF DOMAIN f = {} THEN 0
    ELSE LET a == CHOOSE x \in DOMAIN f : TRUE
         IN f[a] + SumValues([x \in DOMAIN f \ {a} |-> f[x]])

EmptyRefs == [x \in {} |-> 0]

Insert(refs, ptr, size) ==
    [x \in DOMAIN refs \cup {ptr} |-> IF x = ptr THEN size ELSE refs[x]]

\* ------------------------------------------------------------------- values

Scalar(sz) == [k |-> "scalar", sz |-> sz]
U8 == Scalar(1)
U32 == Scalar(4)
U64 == Scalar(8)
Usize == Scalar(8)
Unit == Scalar(0)

Str(len, cap) == [k |-> "string", len |-> len, cap |-> cap]
StrSlice(len) == [k |-> "str", len |-> len]
Ref(addr, to) == [k |-> "ref", addr |-> addr, to |-> to]
RefMut(addr, to) == [k |-> "refmut", addr |-> addr, to |-> to]
Rc(addr, to) == [k |-> "rc", addr |-> addr, to |-> to]
Arc(addr, to) == [k |-> "arc", addr |-> addr, to |-> to]
Box(inner) == [k |-> "box", inner |-> inner]
Some(inner) == [k |-> "option", some |-> TRUE, inner |-> inner]
None(proto) == [k |-> "option", some |-> FALSE, inner |-> proto]
Cell(inner) == [k |-> "cell", inner |-> inner]
\* OnceCell<T>: set to inner, or empty (inner then stands for the type)
OnceCell(some, inner) == [k |-> "oncecell", some |-> some, inner |-> inner]
\* MutexGuard, RwLockReadGuard, RwLockWriteGuard of a lock around inner
Guard(inner) == [k |-> "guard", inner |-> inner]
\* std::sync::Mutex<T> and RwLock<T> around inner
Mutex(inner) == [k |-> "mutex", inner |-> inner]
RwLock(inner) == [k |-> "rwlock", inner |-> inner]
RefCell(inner) == [k |-> "refcell", inner |-> inner]
Range(start, end) == [k |-> "range", start |-> start, end |-> end]
Tuple(fields) == [k |-> "tuple", fields |-> fields]
Array(proto, elems) ==
    [k |-> "array", proto |-> proto, elems |-> elems, n |-> Len(elems)]
\* [x; n] for a scalar x: the n equal elements are not written out.
ArrayOf(proto, n) == [k |-> "array", proto |-> proto, elems |-> <<>>, n |-> n]
Vec(proto, elems, cap) ==
    [k |-> "vec", proto |-> proto, elems |-> elems, cap |-> cap]
VecDeque(proto, elems, cap) ==
    [k |-> "vecdeque", proto |-> proto, elems |-> elems, cap |-> cap]
HashSet(proto, elems, cap) ==
    [k |-> "hashset", proto |-> proto, elems |-> elems, cap |-> cap]
BTreeSet(proto, elems) == [k |-> "btreeset", proto |-> proto, elems |-> elems]
BTreeMap(kproto, vproto, keys, vals) ==
    [k |-> "btreemap", kproto |-> kproto, vproto |-> vproto, keys |-> keys, vals |-> vals]
Struct(copy_type, fields) ==
    [k |-> "struct", copy_type |-> copy_type, fields |-> fields]
Enum(variants, variant, fields) ==
    [k |-> "enum", copy_type |-> FALSE, variants |-> variants,
     variant |-> variant, fields |-> fields]

Repeat(v, n) == [i \in 1..n |-> v]
ElemsOf(v) == IF v.k = "array" /\ Len(v.elems) # v.n THEN Repeat(v.proto, v.n) ELSE v.elems

IsPointer(v) == v.k \in {"ref", "refmut", "rc", "arc", "box"}

\* core::mem::align_of of the value's type.
RECURSIVE AlignOf(_)
RECURSIVE AlignOfAll(_)
AlignOfAll(vs) == [i \in 1..Len(vs) |-> AlignOf(vs[i])]

AlignOf(v) ==
    CASE v.k = "scalar" -> Max(v.sz, 1)
      [] v.k \in {"ref", "refmut", "rc", "arc", "box"} -> PtrSize
      [] v.k \in {"string", "vec", "vecdeque"} -> PtrSize
      [] v.k = "str" -> 1
      [] v.k \in {"hashset", "btreeset", "btreemap"} -> PtrSize
      [] v.k \in {"option", "cell", "oncecell"} -> AlignOf(v.inner)
      [] v.k = "guard" -> PtrSize
      [] v.k \in {"mutex", "rwlock"} -> Max(4, AlignOf(v.inner))
      [] v.k = "refcell" -> Max(PtrSize, AlignOf(v.inner))
      [] v.k = "range" -> AlignOf(v.start)
      [] v.k = "array" -> AlignOf(v.proto)
      [] v.k \in {"tuple", "struct"} -> MaxSeq(AlignOfAll(v.fields))
      [] v.k = "enum" ->
            MaxSeq([i \in 1..Len(v.variants) |-> MaxSeq(AlignOfAll(v.variants[i]))])

\* core::mem::size_of of the value's type (size_of_val for the value).
RECURSIVE SizeOf(_)
RECURSIVE SizeOfAll(_)
SizeOfAll(vs) == [i \in 1..Len(vs) |-> SizeOf(vs[i])]

SizeOf(v) ==
    CASE v.k = "scalar" -> v.sz
      [] v.k \in {"ref", "refmut", "rc", "arc", "box"} -> PtrSize
      [] v.k = "string" -> StringHeader
      [] v.k = "str" -> v.len
      [] v.k = "vec" -> VecHeader
      [] v.k = "vecdeque" -> VecDequeHeader
      [] v.k = "hashset" -> HashSetHeader
      [] v.k \in {"btreeset", "btreemap"} -> BTreeHeader
      [] v.k = "guard" -> GuardSize
      [] v.k = "mutex" -> AlignUp(MutexMeta + SizeOf(v.inner), AlignOf(v))
      [] v.k = "rwlock" -> AlignUp(RwLockMeta + SizeOf(v.inner), AlignOf(v))
      [] v.k \in {"option", "oncecell"} ->
            IF IsPointer(v.inner) \/ v.inner.k \in {"string", "vec", "vecdeque"}
            THEN SizeOf(v.inner)
            ELSE AlignUp(SizeOf(v.inner) + 1, AlignOf(v.inner))
      [] v.k = "cell" -> SizeOf(v.inner)
      [] v.k = "refcell" -> AlignUp(PtrSize + SizeOf(v.inner), AlignOf(v))
      [] v.k = "range" -> 2 * SizeOf(v.start)
      [] v.k = "array" -> v.n * SizeOf(v.proto)
      [] v.k \in {"tuple", "struct"} ->
            AlignUp(SumSeq(SizeOfAll(v.fields)), AlignOf(v))
      [] v.k = "enum" ->
            AlignUp(AlignOf(v) + MaxSeq(
                [i \in 1..Len(v.variants) |->
                    AlignUp(SumSeq(SizeOfAll(v.variants[i])), AlignOf(v))]
                \o <<0>>), AlignOf(v))

\* <T as CopyType>::Copy: TRUE for True, FALSE for False.
RECURSIVE CopyTypeOf(_)
CopyTypeOf(v) ==
    CASE v.k = "scalar" -> TRUE
      [] v.k \in {"ref", "refmut", "box", "string", "vec", "vecdeque", "tuple"} -> FALSE
      [] v.k \in {"option", "cell", "refcell", "oncecell"} -> CopyTypeOf(v.inner)
      [] v.k = "array" -> CopyTypeOf(v.proto)
      [] v.k = "range" -> TRUE
      [] v.k \in {"struct", "enum"} -> v.copy_type
      [] OTHER -> FALSE

\* ------------------------------------------------------------- size engine
(***************************************************************************)
(* A traversal result: s is the returned usize, refs the visited-address   *)
(* table after the call, div tells that the recursion re-entered a pointer *)
(* call still in progress whose address the table does not hold: the same  *)
(* call then repeats without end (the thread's stack overflows).  act is   *)
(* the set of pointee cells whose pointer calls are in progress.           *)
(***************************************************************************)
Ret(s, refs, div) == [s |-> s, refs |-> refs, div |-> div]

\* x with n more bytes; a then b, with n more bytes; x leaving refs as it was.
Plus(x, n) == Ret(x.s + n, x.refs, x.div)
Join(a, b, n) == Ret(a.s + b.s + n, b.refs, a.div \/ b.div)
WithRefs(x, refs) == Ret(x.s, refs, x.div)

RECURSIVE MemSizeRec(_, _, _, _)
RECURSIVE MemSize(_, _, _)
RECURSIVE SumRec(_, _, _, _)
RECURSIVE SumExtra(_, _, _, _)
RECURSIVE SumFieldExtra(_, _, _)
RECURSIVE SumRecTail(_, _, _, _)
RECURSIVE SumExtraTail(_, _, _, _)

\* The rest of a sum, once the head h is measured: refs is threaded through.
SumRecTail(h, vs, fl, act) == Join(h, SumRec(Tail(vs), fl, h.refs, act), 0)
SumExtraTail(h, vs, fl, act) ==
    Join(h, SumExtra(Tail(vs), fl, h.refs, act), 0 - SizeOf(Head(vs)))

\* self.iter().map(|x| mem_size_rec(x, flags, refs)).sum()
SumRec(vs, fl, refs, act) ==
    IF vs = <<>> THEN Ret(0, refs, FALSE)
    ELSE SumRecTail(MemSizeRec(Head(vs), fl, refs, act), vs, fl, act)

\* the sum of mem_size_rec(x, flags, refs) - size_of::<T>() over vs, in order
SumExtra(vs, fl, refs, act) ==
    IF vs = <<>> THEN Ret(0, refs, FALSE)
    ELSE SumExtraTail(MemSizeRec(Head(vs), fl, refs, act), vs, fl, act)

\* ScalarMemSize counting a usize more under CAPACITY.
ScalarMemSizeCap(v, fl, refs) ==
    Ret(SizeOf(v) + (IF CAPACITY \in fl THEN SizeOf(Usize) ELSE 0), refs, FALSE)

ScalarMemSize(v, fl, refs) == Ret(SizeOf(v), refs, FALSE)

StrMemSize(v, fl, refs) == Ret(SizeOf(Usize) + v.len, refs, FALSE)

StringMemSize(v, fl, refs) ==
    IF CAPACITY \in fl THEN Ret(StringHeader + v.cap, refs, FALSE)
    ELSE Ret(StringHeader + v.len, refs, FALSE)

\* The table mem_size_rec of the pointee is called with: the pointer's own
\* address is not in it yet.
AtPointee(refs, v) == refs

\* refs.insert(ptr, inner_size), after the pointee has been measured
RefInsert(inner, v) == Ret(PtrSize, Insert(inner.refs, v.addr, inner.s), inner.div)

RefMemSizeRec(v, fl, refs, act) ==
    IF FOLLOW_REFS \in fl
    THEN IF v.addr \notin DOMAIN refs
         THEN IF v.to \in act
              THEN Ret(PtrSize, refs, TRUE)
              ELSE RefInsert(MemSizeRec(heap[v.to], fl, AtPointee(refs, v),
                                        act \cup {v.to}), v)
         ELSE Ret(PtrSize, refs, FALSE)
    ELSE Ret(PtrSize, refs, FALSE)

\* size_of::<RcInner<T>>(): the two counters, then the data
RcInnerSize(T) == AlignUp(RcCounts + SizeOf(T), Max(PtrSize, AlignOf(T)))

\* refs.insert(ptr, size_of::<RcInner<T>>() + inner - size_of::<T>())
RcInsert(inner, v) ==
    Ret(PtrSize,
        Insert(inner.refs, v.addr,
               RcInnerSize(heap[v.to]) + inner.s - SizeOf(heap[v.to])),
        inner.div)

RcMemSizeRec(v, fl, refs, act) ==
    IF FOLLOW_RC \in fl /\ v.addr \notin DOMAIN refs
    THEN IF v.to \in act
         THEN Ret(PtrSize, refs, TRUE)
         ELSE RcInsert(MemSizeRec(heap[v.to], fl, AtPointee(refs, v),
                                  act \cup {v.to}), v)
    ELSE Ret(PtrSize, refs, FALSE)

BoxMemSizeRec(v, fl, refs, act) == Plus(MemSizeRec(v.inner, fl, refs, act), PtrSize)

OptionMemSizeRec(v, fl, refs, act) ==
    IF v.some
    THEN Plus(MemSizeRec(v.inner, fl, refs, act), SizeOf(v) - SizeOf(v.inner))
    ELSE Ret(SizeOf(v), refs, FALSE)

\* OnceCellMemSizeRec without size_of::<Self>().
OnceCellMemSizeRecBare(v, fl, refs, act) ==
    IF v.some
    THEN Plus(MemSizeRec(v.inner, fl, refs, act), 0 - SizeOf(v.inner))
    ELSE Ret(0, refs, FALSE)

OnceCellMemSizeRec(v, fl, refs, act) ==
    IF v.some
    THEN Plus(MemSizeRec(v.inner, fl, refs, act), SizeOf(v) - SizeOf(v.inner))
    ELSE Ret(SizeOf(v), refs, FALSE)

\* deref_pointer_size: the guard, and with FOLLOW_REFS what the guarded value
\* owns beyond its own size
GuardMemSizeRec(v, fl, refs, act) ==
    IF FOLLOW_REFS \in fl
    THEN Plus(MemSizeRec(v.inner, fl, refs, act), SizeOf(v) - SizeOf(v.inner))
    ELSE Ret(SizeOf(v), refs, FALSE)

\* Mutex and RwLock, once lock() or read() has returned the guard: the
\* guarded value is visited as a T
LockMemSizeRec(v, fl, refs, act) ==
    Plus(MemSizeRec(v.inner, fl, refs, act), SizeOf(v) - SizeOf(v.inner))

CellMemSizeRec(v, fl, refs, act) == MemSizeRec(v.inner, fl, refs, act)

RefCellMemSizeRec(v, fl, refs, act) ==
    Plus(MemSizeRec(v.inner, fl, refs, act), SizeOf(v) - SizeOf(v.inner))

RangeEnd(a, v, fl, act) ==
    Join(a, MemSizeRec(v.end, fl, a.refs, act), SizeOf(v) - 2 * SizeOf(v.start))

RangeMemSizeRec(v, fl, refs, act) ==
    RangeEnd(MemSizeRec(v.start, fl, refs, act), v, fl, act)

\* TupleMemSizeRec without the size_of of the components taken off.
TupleMemSizeRecNoSub(v, fl, refs, act) == Plus(SumRec(v.fields, fl, refs, act), SizeOf(v))

TupleMemSizeRec(v, fl, refs, act) == Plus(SumExtra(v.fields, fl, refs, act), SizeOf(v))

ArrayMemSizeTrue(v, fl, refs, act) == Ret(SizeOf(v), refs, FALSE)

ArrayMemSizeFalse(v, fl, refs, act) == Plus(SumExtra(ElemsOf(v), fl, refs, act), SizeOf(v))

VecMemSizeTrue(v, fl, refs, act) ==
    IF CAPACITY \in fl
    THEN Ret(SizeOf(v) + v.cap * SizeOf(v.proto), refs, FALSE)
    ELSE Ret(SizeOf(v) + Len(v.elems) * SizeOf(v.proto), refs, FALSE)

\* VecMemSizeFalse with the elements' stack size counted a second time.
VecMemSizeFalseTwice(v, fl, refs, act) ==
    Plus(SumRec(v.elems, fl, refs, act),
         SizeOf(v) + Len(v.elems) * SizeOf(v.proto)
           + (IF CAPACITY \in fl THEN (v.cap - Len(v.elems)) * SizeOf(v.proto) ELSE 0))

VecMemSizeFalse(v, fl, refs, act) ==
    IF CAPACITY \in fl
    THEN Plus(SumRec(v.elems, fl, refs, act),
              SizeOf(v) + (v.cap - Len(v.elems)) * SizeOf(v.proto))
    ELSE Plus(SumRec(v.elems, fl, refs, act), SizeOf(v))

\* usize::next_power_of_two
RECURSIVE PowerOfTwoFrom(_, _)
PowerOfTwoFrom(p, n) == IF p >= n THEN p ELSE PowerOfTwoFrom(2 * p, n)
NextPowerOfTwo(n) == PowerOfTwoFrom(1, n)

\* capacity_to_buckets (the capacities here are far from overflowing cap * 8)
CapacityToBuckets(cap) ==
    IF cap = 0 THEN 0
    ELSE IF cap < 8 THEN (IF cap < 4 THEN 4 ELSE 8)
    ELSE NextPowerOfTwo((cap * 8) \div 7)

\* The empty buckets, the control bytes and the group padding of a table.
HashOverhead(buckets, v) ==
    (buckets - Len(v.elems)) * SizeOf(v.proto) + buckets
        + (IF buckets > 0 THEN GROUP_WIDTH ELSE 0)

\* fix_set_for_capacity counting fewer than eight elements as four buckets.
FixSetForCapacityFour(x, v, fl) ==
    Plus(x, HashSetHeader
            + HashOverhead(IF (IF CAPACITY \in fl THEN v.cap ELSE Len(v.elems)) \in 1..7
                           THEN 4
                           ELSE CapacityToBuckets(IF CAPACITY \in fl THEN v.cap
                                                  ELSE Len(v.elems)), v))

FixSetForCapacity(x, v, fl) ==
    Plus(x, HashSetHeader
            + HashOverhead(CapacityToBuckets(IF CAPACITY \in fl THEN v.cap
                                             ELSE Len(v.elems)), v))

HashSetMemSizeTrue(v, fl, refs, act) ==
    FixSetForCapacity(Ret(SizeOf(v.proto) * Len(v.elems), refs, FALSE), v, fl)

HashSetMemSizeFalse(v, fl, refs, act) ==
    FixSetForCapacity(SumRec(v.elems, fl, refs, act), v, fl)

\* estimate_btree_size: the leaf and internal node layouts, their weighted
\* average, and the estimate for len entries of key type K and value type V.
LeafSize(K, V) ==
    AlignUp(AlignUp(NodeHeader, AlignOf(K)) + SizeOf(K) * NodeCapacity, AlignOf(V))
        + SizeOf(V) * NodeCapacity

InternalSize(K, V) == AlignUp(LeafSize(K, V), PtrSize) + PtrSize * (NodeCapacity + 1)

AvgNodeSize(K, V) == (LeafSize(K, V) * B + InternalSize(K, V)) \div (B + 1)

\* estimate_btree_size charging an empty tree one leaf.
EstimateBTreeSizeLeaf(len, K, V) ==
    IF len <= NodeCapacity THEN LeafSize(K, V)
    ELSE (len \div B) * AvgNodeSize(K, V)

EstimateBTreeSize(len, K, V) ==
    IF len = 0 THEN 0
    ELSE IF len <= NodeCapacity THEN LeafSize(K, V)
    ELSE (len \div B) * AvgNodeSize(K, V)

BTreeSetMemSizeTrue(v, fl, refs, act) ==
    Ret(BTreeHeader + EstimateBTreeSize(Len(v.elems), v.proto, Unit), refs, FALSE)

BTreeSetMemSizeFalse(v, fl, refs, act) ==
    Plus(SumExtra(v.elems, fl, refs, act),
         BTreeHeader + EstimateBTreeSize(Len(v.elems), v.proto, Unit))

\* self.iter(): k1, v1, k2, v2, ...
Interleave(keys, vals) ==
    [i \in 1..(2 * Len(keys)) |-> IF i % 2 = 1 THEN keys[(i + 1) \div 2] ELSE vals[i \div 2]]

\* The four MemSizeHelper2 implementations: the entries whose extra heap is
\* summed are the keys, the values, both or none.
BTreeMapItems(v) ==
    IF CopyTypeOf(v.kproto)
    THEN (IF CopyTypeOf(v.vproto) THEN <<>> ELSE v.vals)
    ELSE (IF CopyTypeOf(v.vproto) THEN v.keys ELSE Interleave(v.keys, v.vals))

BTreeMapMemSize(v, fl, refs, act) ==
    Plus(SumExtra(BTreeMapItems(v), fl, refs, act),
         BTreeHeader + EstimateBTreeSize(Len(v.keys), v.kproto, v.vproto))

\* A derived type behind a container or pointer: its generated mem_size.
DerivedMemSizeRec(v, fl, refs, act) == WithRefs(MemSize(v, fl, act), refs)

MemSizeRec(v, fl, refs, act) ==
    CASE v.k = "scalar" -> ScalarMemSize(v, fl, refs)
      [] v.k = "string" -> StringMemSize(v, fl, refs)
      [] v.k = "str" -> StrMemSize(v, fl, refs)
      [] v.k \in {"ref", "refmut"} -> RefMemSizeRec(v, fl, refs, act)
      [] v.k \in {"rc", "arc"} -> RcMemSizeRec(v, fl, refs, act)
      [] v.k = "box" -> BoxMemSizeRec(v, fl, refs, act)
      [] v.k = "option" -> OptionMemSizeRec(v, fl, refs, act)
      [] v.k = "cell" -> CellMemSizeRec(v, fl, refs, act)
      [] v.k = "oncecell" -> OnceCellMemSizeRec(v, fl, refs, act)
      [] v.k = "guard" -> GuardMemSizeRec(v, fl, refs, act)
      [] v.k \in {"mutex", "rwlock"} -> LockMemSizeRec(v, fl, refs, act)
      [] v.k = "refcell" -> RefCellMemSizeRec(v, fl, refs, act)
      [] v.k = "range" -> RangeMemSizeRec(v, fl, refs, act)
      [] v.k = "tuple" -> TupleMemSizeRec(v, fl, refs, act)
      [] v.k = "array" ->
            IF CopyTypeOf(v.proto) THEN ArrayMemSizeTrue(v, fl, refs, act)
            ELSE ArrayMemSizeFalse(v, fl, refs, act)
      [] v.k \in {"vec", "vecdeque"} ->
            IF CopyTypeOf(v.proto) THEN VecMemSizeTrue(v, fl, refs, act)
            ELSE VecMemSizeFalse(v, fl, refs, act)
      [] v.k = "hashset" ->
            IF CopyTypeOf(v.proto) THEN HashSetMemSizeTrue(v, fl, refs, act)
            ELSE HashSetMemSizeFalse(v, fl, refs, act)
      [] v.k = "btreeset" ->
            IF CopyTypeOf(v.proto) THEN BTreeSetMemSizeTrue(v, fl, refs, act)
            ELSE BTreeSetMemSizeFalse(v, fl, refs, act)
      [] v.k = "btreemap" -> BTreeMapMemSize(v, fl, refs, act)
      [] v.k \in {"struct", "enum"} -> DerivedMemSizeRec(v, fl, refs, act)

\* The traversal's result plus the sizes the table recorded.
WithTable(r) == Ret(r.s + SumValues(r.refs), r.refs, r.div)

\* TopMemSize continuing with the table the previous call left behind.
TopMemSizeStale(v, fl, act) == WithTable(MemSizeRec(v, fl, table, act))

\* mem_size of a library type: a fresh table, the traversal, and the sizes the
\* table recorded for the followed pointees.
TopMemSize(v, fl, act) == WithTable(MemSizeRec(v, fl, EmptyRefs, act))

\* bytes += <T as MemSize>::mem_size(&self.f, flags) - size_of::<T>(), per field
\* Two fields' results: each call had its own table.
Merge(h, t, n) ==
    Ret(h.s + t.s + n,
        [x \in DOMAIN h.refs \cup DOMAIN t.refs |->
            IF x \in DOMAIN t.refs THEN t.refs[x] ELSE h.refs[x]],
        h.div \/ t.div)

SumFieldExtra(fs, fl, act) ==
    IF fs = <<>> THEN Ret(0, EmptyRefs, FALSE)
    ELSE Merge(MemSize(Head(fs), fl, act), SumFieldExtra(Tail(fs), fl, act),
               0 - SizeOf(Head(fs)))

\* DeriveStructMemSize without the "- size_of::<T>()" of each field.
DeriveStructMemSizeNoSub(v, fl, act) ==
    Plus(SumFieldExtra(v.fields, fl, act),
         SizeOf(v) + SumSeq([i \in 1..Len(v.fields) |-> SizeOf(v.fields[i])]))

DeriveStructMemSize(v, fl, act) == Plus(SumFieldExtra(v.fields, fl, act), SizeOf(v))

\* DeriveEnumMemSize with match arms that ignore the payload.
DeriveEnumMemSizeNoPayload(v, fl, act) == Ret(SizeOf(v), EmptyRefs, FALSE)

DeriveEnumMemSize(v, fl, act) == Plus(SumFieldExtra(v.fields, fl, act), SizeOf(v))

MemSize(v, fl, act) ==
    CASE v.k = "struct" -> DeriveStructMemSize(v, fl, act)
      [] v.k = "enum" -> DeriveEnumMemSize(v, fl, act)
      [] OTHER -> TopMemSize(v, fl, act)

\* -------------------------------------------------------- debug-tree engine
(***************************************************************************)
(* DbgFlags: the flags that decide what is traversed and in which order.   *)
(* HUMANIZE, PERCENTAGE, TYPE_NAME, SEPARATOR and COLOR change only the    *)
(* text inside a line and are not modelled.  A line is a record; the       *)
(* prefix is a sequence of two-character segments, "sp" for two blanks     *)
(* (2 bytes) and "bar" for a vertical bar and a blank (3 + 1 bytes).       *)
(***************************************************************************)
RUST_LAYOUT == "RUST_LAYOUT"
DbgFlags == SUBSET {FOLLOW_REFS, CAPACITY, FOLLOW_RC, RUST_LAYOUT}

ToSizeFlags(fl) == fl \cap {FOLLOW_REFS, CAPACITY, FOLLOW_RC}

SegBytes(seg) == IF seg = "bar" THEN 4 ELSE 2

\* String::len of the prefix: its length in bytes.
ByteLen(prefix) == SumSeq([i \in 1..Len(prefix) |-> SegBytes(prefix[i])])

\* Whether byte index 2 of the prefix is a character boundary.
CharBoundary2(prefix) == prefix = <<>> \/ prefix[1] = "sp"

\* The state the traversal threads: what was written, the prefix, how the
\* call ended and the visited addresses (dbg_refs).
Out(w, prefix, st, refs) == [w |-> w, prefix |-> prefix, st |-> st, refs |-> refs]

\* Indices 1..Len(key) sorted by key, stably (slice::sort_by_key).
RECURSIVE SortByKey(_, _)
SortByKey(ids, key) ==
    IF ids = <<>> THEN <<>>
    ELSE LET least == CHOOSE i \in 1..Len(ids) :
                        /\ \A j \in 1..Len(ids) : key[ids[i]] <= key[ids[j]]
                        /\ \A j \in 1..(i - 1) : key[ids[j]] > key[ids[i]]
         IN <<ids[least]>> \o
            SortByKey([j \in 1..(Len(ids) - 1) |-> IF j < least THEN ids[j] ELSE ids[j + 1]], key)

Iota(n) == [i \in 1..n |-> i]

\* core::mem::offset_of! of each field: the compiler places the fields by
\* decreasing alignment, in declaration order among equals.
\* With build.zst_first the zero-sized fields come first, at offset 0.
Offsets(fields) ==
    LET n == Len(fields)
        zst(i) == build.zst_first /\ SizeOf(fields[i]) = 0
        order == SelectSeq(Iota(n), zst)
                 \o SortByKey(SelectSeq(Iota(n), LAMBDA i : ~zst(i)),
                              [i \in 1..n |-> 0 - AlignOf(fields[i])])
        pos(i) == CHOOSE p \in 1..n : order[p] = i
    IN [i \in 1..n |-> SumSeq([p \in 1..(pos(i) - 1) |-> SizeOf(fields[order[p]])])]

\* IdSizes that leaves id_sizes in offset order whatever the flags are.
IdSizesByOffset(fields, size, byOffset) ==
    LET n == Len(fields)
        off == Offsets(fields) \o <<size>>
        sorted == SortByKey(Iota(n + 1), off)
        padded == [p \in 1..n |-> off[sorted[p + 1]] - off[sorted[p]]]
        entries == [p \in 1..n |-> [id |-> sorted[p], padded |-> padded[p]]]
    IN SelectSeq(entries, LAMBDA e : e.id <= n)

\* id_sizes after the two sorts: the emission order and each field's padded size.
IdSizes(fields, size, byOffset) ==
    LET n == Len(fields)
        off == Offsets(fields) \o <<size>>
        sorted == SortByKey(Iota(n + 1), off)
        padded == [p \in 1..n |-> off[sorted[p + 1]] - off[sorted[p]]]
        entries == [p \in 1..n |-> [id |-> sorted[p], padded |-> padded[p]]]
        first == SelectSeq(entries, LAMBDA e : e.id <= n)
    IN IF byOffset THEN first
       ELSE LET at(i) == CHOOSE p \in 1..n : entries[p].id = i
            IN [i \in 1..n |-> entries[at(i)]]

RECURSIVE DbgDepthOn(_, _, _, _, _, _, _, _, _, _)
RECURSIVE DbgRecOn(_, _, _, _, _, _, _, _)
RECURSIVE RangeRecOnEnd(_, _, _, _, _, _)
RECURSIVE DbgFields(_, _, _, _, _, _, _, _, _, _)
RECURSIVE DbgFieldsNext(_, _, _, _, _, _, _, _)
RECURSIVE DbgChildren(_, _, _, _, _, _, _)

\* The loop over id_sizes: one _mem_dbg_depth_on per entry, the i-th being the
\* last when i == n - 1; a failure (the ? operator) ends the loop.
DbgFieldsNext(r, fields, entries, i, names, total, maxd, fl) ==
    IF r.st # "ok" THEN r
    ELSE DbgFields(fields, entries, i + 1, names, total, maxd, r.prefix, fl, r.w, r.refs)

DbgFields(fields, entries, i, names, total, maxd, prefix, fl, w, refs) ==
    IF i > Len(entries) THEN Out(w, prefix, "ok", refs)
    ELSE DbgFieldsNext(
            DbgDepthOn(fields[entries[i].id], total, maxd, prefix, names[entries[i].id],
                       i = Len(entries), entries[i].padded, fl, w, refs),
            fields, entries, i, names, total, maxd, fl)

FieldNames(n) == [i \in 1..n |-> ToString(i - 1)]

DeriveStructRecOn(v, total, maxd, prefix, is_last, fl, w, refs) ==
    DbgFields(v.fields, IdSizes(v.fields, SizeOf(v), RUST_LAYOUT \in fl), 1,
              FieldNames(Len(v.fields)), total, maxd, prefix, fl, w, refs)

\* utils::n_of_digits
RECURSIVE NOfDigits(_)
NOfDigits(x) == IF x < 10 THEN 1 ELSE 1 + NOfDigits(x \div 10)

\* The write calls a line takes: the size, the prefix with its two glyphs,
\* the name, the padding and the newline of a node; the spaces, the prefix, the
\* two glyphs and the name of a variant.
WritesOf(line) ==
    IF line.kind = "node"
    THEN 1 + (IF line.prefix = <<>> THEN 0 ELSE 3) + (IF line.name = "" THEN 0 ELSE 1)
           + (IF line.padding = 0 THEN 0 ELSE 1) + 1
    ELSE IF line.kind = "variant" THEN line.pad + 4
    ELSE IF line.kind = "spaces" THEN line.pad
    ELSE IF line.kind = "cut"
    THEN 1 + (IF line.prefix = <<>> THEN 0 ELSE 3) + (IF line.name = "" THEN 0 ELSE 1)
    ELSE line.done + 1

\* The write calls made on the sink so far.
RECURSIVE Attempts(_)
Attempts(w) == IF w = <<>> THEN 0 ELSE WritesOf(Head(w)) + Attempts(Tail(w))

\* Writing a line: all its writes succeed, or one of them is refused by the
\* sink and the ? operator returns the error.
Write(w, prefix, line, refs) ==
    IF Attempts(w) + WritesOf(line) <= sink THEN Out(Append(w, line), prefix, "ok", refs)
    ELSE Out(Append(w, [kind |-> "failed", done |-> Max(0, sink - Attempts(w))]),
             prefix, "err", refs)

\* &prefix[2..] inside a character: the spaces are written, then the slice
\* panics.
SlicePanic(r) == IF r.st # "ok" THEN r ELSE Out(r.w, r.prefix, "panic", r.refs)

\* After the variant's line: the assertion, then the fields.
DeriveEnumFields(r, v, total, maxd, fl) ==
    IF r.st # "ok" THEN r
    ELSE IF RUST_LAYOUT \in fl THEN Out(r.w, r.prefix, "panic", r.refs)
    ELSE DbgFields(v.fields,
                   [i \in 1..Len(v.fields) |-> [id |-> i, padded |-> SizeOf(v.fields[i])]],
                   1, FieldNames(Len(v.fields)), total, maxd, r.prefix, fl, r.w, r.refs)

\* Without the offset_of_enum feature: the fields' own sizes stand for their
\* padded sizes, and RUST_LAYOUT is refused by an assertion.
DeriveEnumRecOn(v, total, maxd, prefix, is_last, fl, w, refs) ==
    IF ~CharBoundary2(prefix)
    THEN SlicePanic(Write(w, prefix, [kind |-> "spaces", pad |-> NOfDigits(total) + 3], refs))
    ELSE DeriveEnumFields(
            Write(w, prefix, [kind |-> "variant", level |-> Len(prefix), prefix |-> prefix,
                              pad |-> NOfDigits(total) + 3, variant |-> v.variant], refs),
            v, total, maxd, fl)

TupleRecOn(v, total, maxd, prefix, is_last, fl, w, refs) ==
    DbgFields(v.fields, IdSizes(v.fields, SizeOf(v), FALSE), 1,
              FieldNames(Len(v.fields)), total, maxd, prefix, fl, w, refs)

DerefRecOn(v, total, maxd, prefix, is_last, fl, w, refs) ==
    IF (IF v.k \in {"rc", "arc"} THEN FOLLOW_RC ELSE FOLLOW_REFS) \in fl
    THEN DbgDepthOn(heap[v.to], total, maxd, prefix, "", is_last,
                    SizeOf(heap[v.to]), fl, w, refs)
    ELSE Out(w, prefix, "ok", refs)

RangeRecOnEnd(a, v, total, maxd, is_last, fl) ==
    IF a.st # "ok" THEN a
    ELSE DbgRecOn(v.end, total, maxd, a.prefix, is_last, fl, a.w, a.refs)

RangeRecOn(v, total, maxd, prefix, is_last, fl, w, refs) ==
    RangeRecOnEnd(DbgRecOn(v.start, total, maxd, prefix, is_last, fl, w, refs),
                  v, total, maxd, is_last, fl)

\* Mutex and RwLock, once lock() or read() has returned the guard: the
\* method that is called is the guard's, which goes on only with FOLLOW_REFS
LockRecOn(v, total, maxd, prefix, is_last, fl, w, refs) ==
    IF FOLLOW_REFS \in fl
    THEN DbgRecOn(v.inner, total, maxd, prefix, is_last, fl, w, refs)
    ELSE Out(w, prefix, "ok", refs)

DbgRecOn(v, total, maxd, prefix, is_last, fl, w, refs) ==
    CASE v.k = "struct" -> DeriveStructRecOn(v, total, maxd, prefix, is_last, fl, w, refs)
      [] v.k = "enum" -> DeriveEnumRecOn(v, total, maxd, prefix, is_last, fl, w, refs)
      [] v.k = "tuple" -> TupleRecOn(v, total, maxd, prefix, is_last, fl, w, refs)
      [] v.k \in {"ref", "refmut", "rc", "arc"} ->
            DerefRecOn(v, total, maxd, prefix, is_last, fl, w, refs)
      [] v.k \in {"box", "cell", "refcell"} ->
            DbgRecOn(v.inner, total, maxd, prefix, is_last, fl, w, refs)
      [] v.k = "range" -> RangeRecOn(v, total, maxd, prefix, is_last, fl, w, refs)
      [] v.k \in {"mutex", "rwlock"} ->
            LockRecOn(v, total, maxd, prefix, is_last, fl, w, refs)
      [] OTHER -> Out(w, prefix, "ok", refs)

\* RefDisplay: how a pointer's line refers to the address it holds.
RefNone == [display |-> "None"]
FirstEncounter(ptr) == [display |-> "FirstEncounter", ptr |-> ptr]
BackReference(ptr) == [display |-> "BackReference", ptr |-> ptr]

\* The marker a line carries: the address marker of a first encounter, the
\* arrow of a back-reference, nothing otherwise.
RefMarker(ref_display) == ref_display

\* A back-reference is shown in the abbreviated form: the pointee, rendered
\* at the first encounter, is not rendered again.
Expands(ref_display) == ref_display.display # "BackReference"

\* padded_size - size_of_val(self) in a build without overflow checks
WrappingSub(a, b) == IF a >= b THEN a - b ELSE a - b + UsizeMax + 1

\* The line of a node: its position, name, size, padding and marker.
Line(v, prefix, name, is_last, padded_size, real_size, ref_display) ==
    [kind |-> "node", level |-> Len(prefix), prefix |-> prefix, last |-> is_last,
     name |-> name, size |-> real_size, padding |-> WrappingSub(padded_size, SizeOf(v)),
     ref |-> RefMarker(ref_display)]

\* What is written of a line before the padding is computed.
CutLine(prefix, name, is_last, real_size) ==
    [kind |-> "cut", level |-> Len(prefix), prefix |-> prefix, last |-> is_last,
     name |-> name, size |-> real_size]

\* 'attempt to subtract with overflow': the thread panics after what it wrote
SubPanic(r) == IF r.st # "ok" THEN r ELSE Out(r.w, r.prefix, "panic", r.refs)

\* the children, with the two pops left out
PopPrefixKept(r) == r

\* prefix.pop(); prefix.pop(); Ok(()), unless the children failed
PopPrefix(r) ==
    IF r.st # "ok" THEN r
    ELSE Out(r.w, SubSeq(r.prefix, 1, Len(r.prefix) - 1), "ok", r.refs)

\* After the node's line: push on the prefix, the children, pop.
DbgChildren(r, v, total, maxd, is_last, fl, ref_display) ==
    IF r.st # "ok" \/ ~Expands(ref_display) THEN r
    ELSE PopPrefix(
            DbgRecOn(v, total, maxd, Append(r.prefix, IF is_last THEN "sp" ELSE "bar"),
                     is_last, fl, r.w, r.refs))

\* MemDbgImpl::_mem_dbg_depth_on_impl: the depth check, the node's line, then
\* its children.
DbgNode(v, total, maxd, prefix, name, is_last, padded_size, fl, w, refs, ref_display, real_size) ==
    IF padded_size < SizeOf(v) /\ build.overflow_checks
    THEN SubPanic(Write(w, prefix, CutLine(prefix, name, is_last, real_size), refs))
    ELSE DbgChildren(
            Write(w, prefix,
                  Line(v, prefix, name, is_last, padded_size, real_size, ref_display),
                  refs),
            v, total, maxd, is_last, fl, ref_display)

DbgDepthOnImpl(v, total, maxd, prefix, name, is_last, padded_size, fl, w, refs, ref_display) ==
    IF ByteLen(prefix) > maxd THEN Out(w, prefix, "ok", refs)
    ELSE DbgNode(v, total, maxd, prefix, name, is_last, padded_size, fl, w, refs,
                 ref_display, MemSize(v, ToSizeFlags(fl), {}).s)

\* The flag that makes a traversal follow the pointer.
FollowFlag(v) == IF v.k \in {"rc", "arc"} THEN FOLLOW_RC ELSE FOLLOW_REFS

\* MemDbgImpl::_mem_dbg_depth_on.  References, Rc and Arc look their address
\* up in dbg_refs when their flag is set, and insert it when it is new; every
\* other type goes to _mem_dbg_depth_on_impl with RefDisplay::None.
RefDisplayOf(v, fl, refs) ==
    IF v.k \in {"ref", "refmut", "rc", "arc"} /\ FollowFlag(v) \in fl
    THEN IF v.addr \in refs THEN BackReference(v.addr) ELSE FirstEncounter(v.addr)
    ELSE RefNone

\* dbg_refs after the lookup: with the address, if a pointer was looked up
Seen(v, fl, refs) ==
    IF v.k \in {"ref", "refmut", "rc", "arc"} /\ FollowFlag(v) \in fl
    THEN refs \cup {v.addr}
    ELSE refs

DbgDepthOn(v, total, maxd, prefix, name, is_last, padded_size, fl, w, refs) ==
    DbgDepthOnImpl(v, total, maxd, prefix, name, is_last, padded_size, fl, w,
                   Seen(v, fl, refs), RefDisplayOf(v, fl, refs))

\* The four entry points of MemDbg.
\* The root's call, given the total size.
RootDepthOn(total, entry, v, max_depth, fl) ==
    IF total.div THEN Out(<<>>, <<>>, "overflow", {})
    ELSE DbgDepthOn(v, total.s,
                    IF entry \in {"mem_dbg", "mem_dbg_on"} THEN UsizeMax ELSE max_depth,
                    <<>>,
                    IF entry = "mem_dbg_depth_on" THEN "" ELSE "root",
                    entry # "mem_dbg_depth_on", SizeOf(v), fl, <<>>, {})

MemDbgEntry(entry, v, max_depth, fl) ==
    RootDepthOn(MemSize(v, ToSizeFlags(fl), {}), entry, v, max_depth, fl)

\* ---------------------------------------------------------------- the values
(***************************************************************************)
(* The values the calls are made on.  Every one is a value safe Rust can   *)
(* build: a Vec's capacity is at least its length, its elements have its   *)
(* element type, and two &mut never point to the same cell.                *)
(***************************************************************************)
Payload == ArrayOf(U8, BigPayload)

Handle(pk, to) ==
    CASE pk = "ref" -> Ref(to, to)
      [] pk = "refmut" -> RefMut(to, to)
      [] pk = "rc" -> Rc(to, to)
      [] pk = "arc" -> Arc(to, to)

Composite(ck, hs) ==
    CASE ck = "tuple" -> Tuple(hs)
      [] ck = "struct" -> Struct(FALSE, hs)
      [] ck = "array" -> Array(hs[1], hs)
      [] ck = "vec" -> Vec(hs[1], hs, Len(hs))

Injective(f) == \A i, j \in DOMAIN f : f[i] = f[j] => i = j

\* The ways k handles share MaxHandles cells, up to renaming the cells.
Sharings(k) ==
    { t \in [1..k -> 1..MaxHandles] :
        \A i \in 1..k : t[i] = 1 \/ \E j \in 1..(i - 1) : t[i] <= t[j] + 1 }

\* k handles of one kind to cells holding equal payloads, in a tuple, a derived
\* record, an array or a Vec (Rc and Arc have no CopyType, so they are elements
\* of neither).
AliasValues ==
    { [heap |-> Repeat(Payload, MaxHandles),
       root |-> Composite(x[2], [i \in 1..Len(x[3]) |-> Handle(x[1], x[3][i])])] :
        x \in { y \in {"ref", "refmut", "rc", "arc"} \X {"tuple", "struct", "array", "vec"}
                      \X UNION { Sharings(k) : k \in 1..MaxHandles } :
                  /\ y[2] \in {"array", "vec"} => y[1] = "ref"
                  /\ y[1] = "refmut" => Injective(y[3]) /\ y[2] = "tuple"
                  /\ y[1] = "arc" => y[2] = "tuple" } }

\* Two pointers with one address and different pointees: a reference to an
\* array and a reference to its first element, an Rc and a reference to its
\* payload; in both orders.
OverlapValues ==
    { [heap |-> <<Array(U64, <<U64, U64>>), U64>>, root |-> Tuple(fs)] :
        fs \in { <<Ref(1, 1), Ref(1, 2)>>, <<Ref(1, 2), Ref(1, 1)>> } }
    \cup
    { [heap |-> <<U64>>, root |-> Tuple(fs)] :
        fs \in { <<Rc(1, 1), Ref(1, 1)>>, <<Ref(1, 1), Rc(1, 1)>> } }

\* struct Node<'a> { next: Cell<Option<&'a Node<'a>>> } and
\* struct Node { next: RefCell<Option<Rc<Node>>> }: chains and cycles.
RefNode(next) == Struct(FALSE, <<Cell(IF next = 0 THEN None(Ref(1, 1)) ELSE Some(Ref(next, next)))>>)
RcNode(next) == Struct(FALSE, <<RefCell(IF next = 0 THEN None(Rc(1, 1)) ELSE Some(Rc(next, next)))>>)

LinkedValues ==
    { [heap |-> <<RefNode(a), RefNode(b)>>, root |-> r] :
        <<a, b, r>> \in (0..2) \X (0..2) \X {Ref(1, 1), RefNode(1), Tuple(<<Ref(1, 1), Ref(2, 2)>>)} }
    \cup
    { [heap |-> <<RcNode(a), RcNode(b)>>, root |-> r] :
        <<a, b, r>> \in (0..2) \X (0..2) \X {Rc(1, 1), Tuple(<<Rc(2, 2), U64>>)} }

\* The element types of the sequences, each by a prototype value, and the
\* elements of each type: full ones and ones with spare capacity.
InnerVecs == { Vec(U32, Repeat(U32, MaxLen), MaxLen + sl) : sl \in {0, MaxSlack} }
Strings == { Str(MaxLen, MaxLen + sl) : sl \in {0, MaxSlack} }

ElementsOf(proto) ==
    CASE proto.k = "vec" -> InnerVecs
      [] proto.k = "string" -> Strings
      [] proto.k = "range" /\ proto.start.k = "string" ->
            { Range(a, Str(1, 1)) : a \in Strings }
      [] proto.k = "range" /\ proto.start.k = "vec" ->
            { Range(a, Vec(U32, <<>>, 0)) : a \in InnerVecs }
      [] proto.k = "tuple" /\ proto.fields[1].k = "vec" ->
            { Tuple(<<x, U8>>) : x \in InnerVecs }
      [] OTHER -> {proto}

ElementTypes ==
    { U8, U32, Unit, Tuple(<<Usize>>), Tuple(<<U8, U64>>), Struct(FALSE, <<Usize>>),
      Struct(TRUE, <<U8, U32>>), Range(U64, U64), Range(Str(0, 0), Str(0, 0)),
      Range(Vec(U32, <<>>, 0), Vec(U32, <<>>, 0)),
      Some(U32), Vec(U32, <<>>, 0), Str(0, 0), Tuple(<<Vec(U32, <<>>, 0), U8>>) }

SeqsOf(S, n) == UNION { [1..l -> S] : l \in 0..n }

ElementSeqs == UNION { {p} \X SeqsOf(ElementsOf(p), MaxLen) : p \in ElementTypes }

SequenceValues ==
    { [heap |-> <<>>, root |-> Vec(x[1][1], x[1][2], Len(x[1][2]) + x[2])] :
        x \in ElementSeqs \X {0, MaxSlack} }
    \cup
    { [heap |-> <<>>, root |-> VecDeque(x[1][1], x[1][2], Len(x[1][2]) + x[2])] :
        x \in ElementSeqs \X {0, MaxSlack} }
    \cup
    { [heap |-> <<>>, root |-> Array(x[1], x[2])] : x \in ElementSeqs }

\* Derived records and sum types.
DataVariants == << <<>>, <<U64>>, <<U64, Vec(Usize, <<>>, 0)>> >>

FieldValues ==
    { U64, U8, Vec(Usize, Repeat(Usize, 2), 10), Ref(1, 1), Rc(1, 1),
      Struct(FALSE, <<U8, Tuple(<<U32, U8>>)>>), Enum(DataVariants, 2, <<U64>>) }

DerivedValues ==
    { [heap |-> <<Payload>>, root |-> Struct(FALSE, fs)] :
        fs \in SeqsOf(FieldValues, MaxFields) }
    \cup
    { [heap |-> <<>>, root |-> r] :
        r \in { Enum(DataVariants, 1, <<>>), Enum(DataVariants, 2, <<U64>>),
                Box(Enum(DataVariants, 2, <<U64>>)), Box(U64),
                Struct(FALSE, <<U64, Str(MaxLen, MaxLen + MaxSlack)>>) } }
    \cup
    { [heap |-> <<>>, root |-> Enum(DataVariants, 3, <<U64, Vec(Usize, Repeat(Usize, MaxLen), MaxLen + sl)>>)] :
        sl \in {0, MaxSlack} }

\* Hash sets of 0..MaxSetLen elements: as full as they are, or with one of the
\* capacities a table has.
TableCapacities == {3, 7, 14, 28}

HashValues ==
    { [heap |-> <<>>, root |-> HashSet(x[1], Repeat(x[1], x[2]), x[3])] :
        x \in { y \in {U64, Str(MaxLen, MaxLen + MaxSlack)} \X (0..MaxSetLen)
                      \X ((0..MaxSetLen) \cup TableCapacities) :
                  y[3] >= y[2] /\ (y[3] = y[2] \/ y[3] \in TableCapacities) } }

\* Ordered sets and maps of 0..MaxTreeLen entries.
BTreeValues ==
    { [heap |-> <<>>, root |-> BTreeSet(x[1], Repeat(x[1], x[2]))] :
        x \in {U8, U64, Str(MaxLen, MaxLen + MaxSlack)} \X (0..MaxTreeLen) }
    \cup
    { [heap |-> <<>>, root |-> BTreeMap(x[1][1], x[1][2], Repeat(x[1][1], x[2]),
                                       Repeat(x[1][2], x[2]))] :
        x \in { <<U8, U8>>, <<U8, Vec(U8, Repeat(U8, 2), 2)>>,
                <<Str(MaxLen, MaxLen), U64>>,
                <<Str(MaxLen, MaxLen), Str(MaxLen, MaxLen + MaxSlack)>> }
              \X (0..MaxTreeLen) }

\* Text: a String of 0..MaxLen bytes with up to MaxSlack spare bytes, a str
\* of 0..MaxLen bytes.
TextValues ==
    { [heap |-> <<>>, root |-> Str(l, l + sl)] : l \in 0..MaxLen, sl \in 0..MaxSlack }
    \cup { [heap |-> <<>>, root |-> StrSlice(l)] : l \in 0..MaxLen }

\* The primitive scalar types with their sizes, and two values of each.
PrimitiveTypes ==
    { <<"()", 0>>, <<"bool", 1>>, <<"char", 4>>, <<"f32", 4>>, <<"f64", 8>>,
      <<"u8", 1>>, <<"u16", 2>>, <<"u32", 4>>, <<"u64", 8>>, <<"u128", 16>>,
      <<"usize", 8>>, <<"i8", 1>>, <<"i64", 8>>, <<"i128", 16>>,
      <<"AtomicBool", 1>>, <<"AtomicU64", 8>>, <<"NonZeroU8", 1>>, <<"NonZeroU128", 16>> }

Primitive(ty, val) == [k |-> "scalar", sz |-> ty[2], ty |-> ty[1], val |-> val]

ScalarValues ==
    { [heap |-> <<>>, root |-> Primitive(ty, val)] :
        ty \in PrimitiveTypes, val \in {"first", "second"} }

\* Tuples of 1..MaxFields components, and the records of test_padding that
\* wrap (u8, u64).
TupleFieldValues ==
    { U8, U64, Str(MaxLen, MaxLen + MaxSlack), Tuple(<<U8, U64>>),
      Vec(U32, Repeat(U32, MaxLen), MaxLen + MaxSlack) }

TupleValues ==
    { [heap |-> <<>>, root |-> Tuple(fs)] :
        fs \in SeqsOf(TupleFieldValues, MaxFields) \ {<<>>} }
    \cup
    { [heap |-> <<>>, root |-> r] :
        r \in { Struct(FALSE, <<Tuple(<<U8, U64>>)>>),
                Struct(FALSE, <<Struct(FALSE, <<U8, U64>>)>>) } }

\* OnceCell<String> empty (test_oncecell_empty) and set, Option, and the
\* guards of a lock around a String or a Vec, alone and in a derived record.
CellInners == { Str(MaxLen, MaxLen + MaxSlack), Vec(U32, Repeat(U32, MaxLen), MaxLen + MaxSlack), U8 }

CellShapes ==
    { OnceCell(b, x) : b \in BOOLEAN, x \in CellInners }
    \cup { Guard(x) : x \in CellInners }
    \cup { Some(x) : x \in CellInners } \cup { None(x) : x \in CellInners }

CellValues ==
    { [heap |-> <<>>, root |-> r] : r \in CellShapes }
    \cup { [heap |-> <<>>, root |-> Struct(FALSE, <<c>>)] : c \in CellShapes }
    \cup { [heap |-> <<>>, root |-> Some(Tuple(<<c, U8>>))] : c \in CellShapes }

Values ==
    CellValues \cup TupleValues \cup ScalarValues \cup AliasValues \cup OverlapValues
        \cup LinkedValues \cup SequenceValues \cup DerivedValues
        \cup HashValues \cup BTreeValues \cup TextValues

\* The values that are rendered: records of records, sum types and handles,
\* the linked nodes, the aliasing pairs, and sequences of tuples.
DbgFieldValues ==
    { U64, Rc(1, 1), Struct(FALSE, <<U8, Tuple(<<U32, U8>>)>>), Enum(DataVariants, 2, <<U64>>) }

\* A pointer below a sibling record, and a later pointer to the same address.
NestedValues ==
    { [heap |-> <<Payload>>, root |-> r] :
        r \in { Tuple(<<Tuple(<<Ref(1, 1)>>), Ref(1, 1)>>),
                Tuple(<<Tuple(<<Tuple(<<Ref(1, 1)>>)>>), Ref(1, 1)>>),
                Tuple(<<Rc(1, 1), Tuple(<<Ref(1, 1)>>)>>),
                Struct(FALSE, <<Struct(FALSE, <<Rc(1, 1)>>), Rc(1, 1)>>) } }

DbgValues ==
    NestedValues \cup
    { v \in DerivedValues : v.root.k = "struct" => \A i \in 1..Len(v.root.fields) :
                                                    v.root.fields[i] \in DbgFieldValues }
    \cup LinkedValues
    \cup { v \in AliasValues : /\ v.root.k \in {"tuple", "struct"}
                               /\ Len(v.root.fields) = 2
                               /\ v.root.fields[1].k \in {"ref", "rc"} }
    \cup { v \in SequenceValues : Len(v.root.elems) = MaxLen /\ v.root.proto.k = "tuple" }

\* ------------------------------------------------------------ state machine

\* a sink that accepts every write
Reliable == UsizeMax

\* The builds: rustc places zero-sized fields first; the other placement
\* puts them where their alignment sorts them (the layout is unspecified).
\* Overflow checks are on in debug builds and off in release builds.
Builds == [zst_first : BOOLEAN, overflow_checks : BOOLEAN]
DefaultBuild == [zst_first |-> TRUE, overflow_checks |-> TRUE]

NoInput == [data |-> "none"]
NoOutput == [made |-> FALSE]
NoSync == [pc |-> "none"]
NoCall == [made |-> FALSE]
NoDbg == [made |-> FALSE]

Init ==
    /\ \E v \in Values : heap = v.heap /\ root = v.root
    /\ last = NoCall
    /\ prev = NoCall
    /\ table = EmptyRefs
    /\ dbg = NoDbg
    /\ sink = Reliable
    /\ input = NoInput
    /\ build = DefaultBuild
    /\ output = NoOutput
    /\ sync = NoSync

\* value.mem_size(fl): returns a usize, or never returns when the recursion
\* does not end (the process then dies of a stack overflow).
\* The caller's view of a call that returned r, or never returned.
Outcome(r, fl) ==
    IF r.div THEN [made |-> TRUE, flags |-> fl, returned |-> FALSE]
    ELSE [made |-> TRUE, flags |-> fl, returned |-> TRUE, size |-> r.s]

Finish(r, fl) ==
    /\ last' = Outcome(r, fl)
    /\ table' = IF r.div THEN table ELSE r.refs

CallMemSize(fl) ==
    /\ ~(last.made /\ ~last.returned)
    /\ Finish(MemSize(root, fl, {}), fl)
    /\ prev' = last
    /\ UNCHANGED <<heap, root, dbg, sink, expansion, sync>>

Next ==
    \/ \E fl \in SizeFlags : CallMemSize(fl)

Spec == Init /\ [][Next]_vars

\* value.mem_dbg*(...): what reaches the sink and how the call ends.  One
\* rendering is followed per run.
Rendered(r, entry, max_depth, fl) ==
    [made |-> TRUE, entry |-> entry, max_depth |-> max_depth, flags |-> fl,
     lines |-> r.w, prefix |-> r.prefix, status |-> r.st, dbg_refs |-> r.refs]

CallMemDbg(entry, max_depth, fl) ==
    /\ ~dbg.made
    /\ dbg' = Rendered(MemDbgEntry(entry, root, max_depth, fl), entry, max_depth, fl)
    /\ UNCHANGED <<heap, root, last, prev, table, sink, expansion, sync>>

NextDbg ==
    \/ \E fl \in DbgFlags : CallMemDbg("mem_dbg", UsizeMax, fl)
    \/ \E fl \in DbgFlags : CallMemDbg("mem_dbg_on", UsizeMax, fl)
    \/ \E fl \in DbgFlags, d \in (0..MaxDepthArg) \cup {UsizeMax} :
            CallMemDbg("mem_dbg_depth", d, fl)
    \/ \E fl \in DbgFlags, d \in (0..MaxDepthArg) \cup {UsizeMax} :
            CallMemDbg("mem_dbg_depth_on", d, fl)

InitDbg ==
    /\ \E v \in DbgValues : heap = v.heap /\ root = v.root
    /\ last = NoCall
    /\ prev = NoCall
    /\ table = EmptyRefs
    /\ dbg = NoDbg
    /\ sink = Reliable
    /\ input = NoInput
    /\ build = DefaultBuild
    /\ output = NoOutput
    /\ sync = NoSync

SpecDbg == InitDbg /\ [][NextDbg]_vars

\* Renderings on a sink that refuses a write: the values are derived records
\* and sum types without cycles, the sink accepts 0..MaxWrites writes or all.
SinkFieldValues ==
    { U64, Struct(FALSE, <<U8, Tuple(<<U32, U8>>)>>), Enum(DataVariants, 2, <<U64>>) }

SinkValues ==
    { [heap |-> <<Payload>>, root |-> Struct(FALSE, fs)] :
        fs \in SeqsOf(SinkFieldValues, MaxFields) }
    \cup
    { [heap |-> <<Payload>>, root |-> r] :
        r \in { Enum(DataVariants, 2, <<U64>>), Box(Enum(DataVariants, 2, <<U64>>)),
                Tuple(<<Rc(1, 1), Rc(1, 1)>>) } }

InitSink ==
    /\ \E v \in SinkValues : heap = v.heap /\ root = v.root
    /\ last = NoCall
    /\ prev = NoCall
    /\ table = EmptyRefs
    /\ dbg = NoDbg
    /\ sink \in (0..MaxWrites) \cup {Reliable}
    /\ input = NoInput
    /\ build = DefaultBuild
    /\ output = NoOutput
    /\ sync = NoSync

NextSink ==
    \/ \E fl \in DbgFlags : CallMemDbg("mem_dbg_on", UsizeMax, fl)
    \/ \E fl \in DbgFlags, d \in (0..MaxDepthArg) \cup {UsizeMax} :
            CallMemDbg("mem_dbg_depth_on", d, fl)

SpecSink == InitSink /\ [][NextSink]_vars

\* Renderings of records and tuples with and without zero-sized fields, in
\* every build.
LayoutFieldValues == { Unit, U8, U64, Tuple(<<U8, U64>>) }

LayoutValues ==
    { [heap |-> <<>>, root |-> Composite(c, fs)] :
        c \in {"tuple", "struct"},
        fs \in SeqsOf(LayoutFieldValues, MaxFields) \ {<<>>} }

InitLayout ==
    /\ \E v \in LayoutValues : heap = v.heap /\ root = v.root
    /\ last = NoCall
    /\ prev = NoCall
    /\ table = EmptyRefs
    /\ dbg = NoDbg
    /\ sink = Reliable
    /\ input = NoInput
    /\ output = NoOutput
    /\ sync = NoSync
    /\ build \in Builds

SpecLayout == InitLayout /\ [][NextDbg]_vars

\* ------------------------------------------------------ the derive directives

\* syn::Fields: Unit, Named or Unnamed with n fields
Fields(style, n) == [style |-> style, n |-> n]

FieldsShapes ==
    { Fields("Unit", 0) }
    \cup { Fields(st, n) : st \in {"Named", "Unnamed"}, n \in 0..MaxDeclFields }

\* syn::Data of a DeriveInput
DataStruct(fields) == [data |-> "Struct", fields |-> fields]
DataEnum(variants) == [data |-> "Enum", variants |-> variants]
DataUnion(n) == [data |-> "Union", fields |-> Fields("Named", n)]

DeriveInputs ==
    { DataStruct(f) : f \in FieldsShapes }
    \cup { DataEnum(vs) : vs \in SeqsOf(FieldsShapes, MaxVariants) }
    \cup { DataUnion(n) : n \in 1..MaxDeclFields }

\* the identifier of declared field i (0-based):  f<i> stands for its name
FieldIdent(i) == "f" \o ToString(i)

\* self.<ident> of a struct's fields: the name, or the index of a tuple field
StructFieldIdents(fields) ==
    [i \in 1..fields.n |->
        IF fields.style = "Named" THEN FieldIdent(i - 1) ELSE ToString(i - 1)]

\* the bindings of a variant's match arm: the names, or v0, v1, ...
VariantArgs(fields) ==
    [i \in 1..fields.n |->
        IF fields.style = "Named" THEN FieldIdent(i - 1) ELSE "v" \o ToString(i - 1)]

\* quote! { impl ... }: the token stream handed back to the compiler
Generated(impls, items) == [status |-> "ok", impls |-> impls, items |-> items]

\* unimplemented!(msg): the directive panics and the compiler reports msg
Unimplemented(msg) ==
    [status |-> "panic", message |-> "not implemented: " \o msg,
     impls |-> <<>>, items |-> <<>>]

\* mem_dbg_mem_size that treats a union as the struct of its fields
mem_dbg_mem_size_union(di) ==
    CASE di.data \in {"Struct", "Union"} ->
            Generated(<<"CopyType", "MemSize">>, StructFieldIdents(di.fields))
      [] di.data = "Enum" ->
            Generated(<<"CopyType", "MemSize">>,
                      [i \in 1..Len(di.variants) |-> VariantArgs(di.variants[i])])

mem_dbg_mem_size(di) ==
    CASE di.data = "Struct" ->
            Generated(<<"CopyType", "MemSize">>, StructFieldIdents(di.fields))
      [] di.data = "Enum" ->
            Generated(<<"CopyType", "MemSize">>,
                      [i \in 1..Len(di.variants) |-> VariantArgs(di.variants[i])])
      [] di.data = "Union" -> Unimplemented("Unions are not supported")

mem_dbg_mem_dbg(di) ==
    CASE di.data = "Struct" ->
            Generated(<<"MemDbgImpl">>, StructFieldIdents(di.fields))
      [] di.data = "Enum" ->
            Generated(<<"MemDbgImpl">>,
                      [i \in 1..Len(di.variants) |-> VariantArgs(di.variants[i])])
      [] di.data = "Union" -> Unimplemented("Unions are not supported")

InitDerive ==
    /\ heap = <<>>
    /\ root = Unit
    /\ last = NoCall
    /\ prev = NoCall
    /\ table = EmptyRefs
    /\ dbg = NoDbg
    /\ sink = Reliable
    /\ input \in DeriveInputs
    /\ build = DefaultBuild
    /\ output = NoOutput
    /\ sync = NoSync

\* #[derive(MemSize)] and #[derive(MemDbg)] on the declaration
Expanded(directive, r) == [made |-> TRUE, directive |-> directive, result |-> r]

DeriveMemSize ==
    /\ ~output.made
    /\ output' = Expanded("MemSize", mem_dbg_mem_size(input))
    /\ UNCHANGED <<heap, root, last, prev, table, dbg, sink, input, build, sync>>

DeriveMemDbg ==
    /\ ~output.made
    /\ output' = Expanded("MemDbg", mem_dbg_mem_dbg(input))
    /\ UNCHANGED <<heap, root, last, prev, table, dbg, sink, input, build, sync>>

NextDerive ==
    \/ DeriveMemSize
    \/ DeriveMemDbg

SpecDerive == InitDerive /\ [][NextDerive]_vars

\* --------------------------------------------------------- locks, threads
(***************************************************************************)
(* The value is a Mutex or an RwLock that another thread uses as well.     *)
(* sync holds the lock (other: what the other thread holds of it, held:    *)
(* the traversal holds it, poisoned: a thread panicked holding it          *)
(* exclusively), the times the other thread may still take it, and the     *)
(* traversal: its call, its position, the acquisitions it has left and     *)
(* whether it has slept on the lock.                                       *)
(* The guarded value is the same at every acquisition.                     *)
(***************************************************************************)
LockInners == { U8, U64, Str(1, MaxLen), Box(U8) }

LockValues ==
    { [root |-> l, heap |-> <<>>] :
        l \in { Mutex(i) : i \in LockInners } \cup { RwLock(i) : i \in LockInners } }

\* the flags of the calls: those a lock's traversal looks at
LockFlags == SUBSET {FOLLOW_REFS, CAPACITY}

InitLock ==
    /\ \E v \in LockValues : heap = v.heap /\ root = v.root
    /\ last = NoCall
    /\ prev = NoCall
    /\ table = EmptyRefs
    /\ dbg = NoDbg
    /\ sink = Reliable
    /\ input = NoInput
    /\ build = DefaultBuild
    /\ output = NoOutput
    /\ \E o \in {"out", "write", "read"}, p \in BOOLEAN :
          /\ o = "read" => root.k = "rwlock"
          /\ sync = [other |-> o, turns |-> MaxTurns, held |-> FALSE, poisoned |-> p,
                     pc |-> "idle", left |-> 0, call |-> NoCall, slept |-> FALSE]

\* the other thread: lock() or write() (mode "write"), read() (mode "read")
OtherLock(mode) ==
    /\ sync.other = "out" /\ sync.turns > 0
    /\ mode = "read" => root.k = "rwlock"
    /\ mode = "write" => ~sync.held
    /\ sync' = [sync EXCEPT !.other = mode, !.turns = @ - 1]
    /\ UNCHANGED <<heap, root, last, prev, table, dbg, sink, expansion>>

\* the other thread drops its guard
OtherUnlock ==
    /\ sync.other \in {"write", "read"}
    /\ sync' = [sync EXCEPT !.other = "out"]
    /\ UNCHANGED <<heap, root, last, prev, table, dbg, sink, expansion>>

\* the other thread panics with its guard: the guard is dropped while
\* unwinding, which poisons the lock if the guard was exclusive
OtherPanic ==
    /\ sync.other \in {"write", "read"}
    /\ sync' = [sync EXCEPT !.other = "dead",
                            !.poisoned = @ \/ sync.other = "write"]
    /\ UNCHANGED <<heap, root, last, prev, table, dbg, sink, expansion>>

\* How often the lock is taken: by mem_size once; by mem_dbg for the total
\* size, for the size on the root's line and for the root's children.
Acquisitions(entry) == IF entry = "mem_size" THEN 1 ELSE 3

\* root.mem_size(fl) or root.mem_dbg(fl) is called and reaches the lock
CallOnLock(entry, fl) ==
    /\ sync.pc = "idle"
    /\ sync' = [sync EXCEPT !.pc = "waiting", !.left = Acquisitions(entry),
                            !.call = [entry |-> entry, flags |-> fl]]
    /\ UNCHANGED <<heap, root, last, prev, table, dbg, sink, expansion>>

\* lock() or read() finds the lock held exclusively: the thread sleeps
Block ==
    /\ sync.pc = "waiting"
    /\ sync.other = "write"
    /\ sync' = [sync EXCEPT !.pc = "blocked", !.slept = TRUE]
    /\ UNCHANGED <<heap, root, last, prev, table, dbg, sink, expansion>>

\* self.lock().unwrap(), self.read().unwrap(): returns when no other thread
\* holds the lock exclusively; unwrap() panics if the lock is poisoned
Acquire ==
    /\ sync.pc \in {"waiting", "blocked"}
    /\ sync.other # "write"
    /\ sync' = IF sync.poisoned THEN [sync EXCEPT !.pc = "panicked"]
               ELSE [sync EXCEPT !.pc = "visiting", !.held = TRUE]
    /\ UNCHANGED <<heap, root, last, prev, table, dbg, sink, expansion>>

\* the guarded value was visited for a size mem_dbg needs: the guard is
\* dropped, the lock is taken again later
VisitAgain ==
    /\ sync.pc = "visiting" /\ sync.left > 1
    /\ sync' = [sync EXCEPT !.pc = "waiting", !.held = FALSE, !.left = @ - 1]
    /\ UNCHANGED <<heap, root, last, prev, table, dbg, sink, expansion>>

\* mem_size returns: the guard is dropped at the end of mem_size_rec
ReturnMemSize ==
    /\ sync.pc = "visiting" /\ sync.left = 1 /\ sync.call.entry = "mem_size"
    /\ Finish(MemSize(root, sync.call.flags, {}), sync.call.flags)
    /\ prev' = last
    /\ sync' = [sync EXCEPT !.pc = "done", !.held = FALSE, !.left = 0]
    /\ UNCHANGED <<heap, root, dbg, sink, expansion>>

\* AfterRendering with the guard never dropped
AfterRenderingHeld(r) == [sync EXCEPT !.pc = "done", !.left = 0]

\* The lock after the rendering r: a panic while the children are written
\* unwinds through the guard, which poisons a Mutex.
AfterRendering(r) ==
    [sync EXCEPT !.pc = IF r.st = "panic" THEN "panicked" ELSE "done",
                 !.held = FALSE, !.left = 0,
                 !.poisoned = @ \/ (r.st = "panic" /\ root.k = "mutex")]

Rendering(r) ==
    /\ dbg' = Rendered(r, sync.call.entry, UsizeMax, sync.call.flags)
    /\ sync' = AfterRendering(r)

\* mem_dbg returns or panics: the guard is dropped at the end of
\* _mem_dbg_rec_on
ReturnMemDbg ==
    /\ sync.pc = "visiting" /\ sync.left = 1 /\ sync.call.entry = "mem_dbg"
    /\ Rendering(MemDbgEntry("mem_dbg", root, UsizeMax, sync.call.flags))
    /\ UNCHANGED <<heap, root, last, prev, table, sink, expansion>>

NextLock ==
    \/ \E mode \in {"write", "read"} : OtherLock(mode)
    \/ OtherUnlock
    \/ OtherPanic
    \/ \E fl \in LockFlags : CallOnLock("mem_size", fl)
    \/ \E fl \in LockFlags : CallOnLock("mem_dbg", fl)
    \/ Block
    \/ Acquire
    \/ VisitAgain
    \/ ReturnMemSize
    \/ ReturnMemDbg

SpecLock == InitLock /\ [][NextLock]_vars

\* A thread that can take a step is scheduled: the other thread leaves the
\* lock it holds, the traversal goes on when it can.
SpecLockFair ==
    /\ SpecLock
    /\ WF_vars(OtherUnlock \/ OtherPanic)
    /\ WF_vars(Acquire)
    /\ WF_vars(VisitAgain \/ ReturnMemSize \/ ReturnMemDbg)

\* ------------------------------------------------------------------ claims
Returned(c) == c.made /\ c.returned

\* The handles a composite holds, and how many distinct addresses they have.
Handles(v) == IF v.k \in {"tuple", "struct"} THEN v.fields ELSE v.elems
HoldsOnly(v, kinds) ==
    /\ v.k \in {"tuple", "struct", "array", "vec"}
    /\ Handles(v) # <<>>
    /\ \A i \in 1..Len(Handles(v)) :
            /\ Handles(v)[i].k \in kinds
            /\ heap[Handles(v)[i].to] = Payload
Distinct(hs) == Cardinality({ hs[i].addr : i \in 1..Len(hs) })
OwnHeap(v) == IF v.k = "vec" THEN Len(v.elems) * PtrSize ELSE 0

\* One Rc/Arc allocation of the payload: the two counters and the payload.
RcAllocation == RcCounts + BigPayload

\* C1: a composite holding two Rc (or two Arc) handles reports, with
\* FOLLOW_RC, its own size plus one pointee allocation per distinct
\* allocation (one when the handles alias, two when they are independent),
\* and without FOLLOW_RC only the handles' stack sizes.
C1Claim ==
    (/\ HoldsOnly(root, {"rc", "arc"})
     /\ Len(Handles(root)) = 2
     /\ Returned(last))
    => last.size = SizeOf(root)
                   + (IF FOLLOW_RC \in last.flags
                      THEN Distinct(Handles(root)) * RcAllocation ELSE 0)

\* C2: a composite holding k references reports, without FOLLOW_REFS, only
\* the pointers (and the buffer that holds them), and with FOLLOW_REFS the
\* referent's size once per distinct referent address on top of that.
C2Claim ==
    (/\ HoldsOnly(root, {"ref", "refmut"})
     /\ Returned(last))
    => last.size = SizeOf(root) + OwnHeap(root)
                   + (IF FOLLOW_REFS \in last.flags
                      THEN Distinct(Handles(root)) * BigPayload ELSE 0)

\* C3: every call of mem_size returns, whatever the value and the flags,
\* self-referential pointer graphs included.
C3Claim == last.made => last.returned

RECURSIVE Slack(_)
Slack(v) ==
    CASE v.k \in {"vec", "vecdeque"} ->
            (v.cap - Len(v.elems)) * SizeOf(v.proto)
            + SumSeq([i \in 1..Len(v.elems) |-> Slack(v.elems[i])])
      [] v.k = "string" -> v.cap - v.len
      [] v.k = "array" -> SumSeq([i \in 1..Len(v.elems) |-> Slack(v.elems[i])])
      [] v.k \in {"tuple", "struct"} ->
            SumSeq([i \in 1..Len(v.fields) |-> Slack(v.fields[i])])
      [] v.k = "range" -> Slack(v.start) + Slack(v.end)
      [] OTHER -> 0

\* C5: for a Vec or VecDeque, mem_size(default) <= mem_size(CAPACITY), and the
\* difference is the unused slots times the element size, summed over the
\* sequence and its nested sequences (so the two are equal when every length
\* equals its capacity).
C5Claim ==
    (/\ root.k \in {"vec", "vecdeque"}
     /\ Returned(prev) /\ prev.flags = {}
     /\ Returned(last) /\ last.flags = {CAPACITY})
    => /\ prev.size <= last.size
       /\ last.size - prev.size = Slack(root)

\* A value that owns no heap memory.
RECURSIVE HeapFree(_)
HeapFree(v) ==
    CASE v.k = "scalar" -> TRUE
      [] v.k \in {"tuple", "struct"} -> \A i \in 1..Len(v.fields) : HeapFree(v.fields[i])
      [] OTHER -> FALSE

\* A Vec visited element by element whose elements own no heap memory.
C6Case ==
    /\ root.k = "vec"
    /\ ~CopyTypeOf(root.proto)
    /\ \A i \in 1..Len(root.elems) : HeapFree(root.elems[i])
    /\ Returned(last) /\ last.flags = {}

\* C6: a Vec of n elements visited one by one, each of stack size s and with
\* no heap memory, reports header + n*s under the default flags, which is
\* what the O(1) strategy reports for n plain elements of size s.
C6Theorem ==
    C6Case =>
        LET n == Len(root.elems)
            s == SizeOf(root.proto)
            plain == Vec(Scalar(s), Repeat(Scalar(s), n), n)
        IN /\ last.size = VecHeader + n * s
           /\ last.size = VecMemSizeTrue(plain, {}, EmptyRefs, {}).s

C6Witness == C6Case /\ Len(root.elems) = MaxLen /\ SizeOf(root.proto) > PtrSize

\* Summing mem_size over the elements one by one.
Elementwise(v, fl) ==
    LET each == [i \in 1..Len(v.elems) |-> MemSize(v.elems[i], fl, {}).s]
    IN IF v.k = "array"
       THEN SizeOf(v) + SumSeq(each) - Len(v.elems) * SizeOf(v.proto)
       ELSE SizeOf(v) + SumSeq(each)
            + (IF CAPACITY \in fl THEN (v.cap - Len(v.elems)) * SizeOf(v.proto) ELSE 0)

\* C7: for a Vec, VecDeque or array whose element type is classified
\* Copy=True, mem_size equals the sum of mem_size over the elements one by
\* one, under every flag combination.
C7Claim ==
    (/\ root.k \in {"vec", "vecdeque", "array"}
     /\ CopyTypeOf(root.proto)
     /\ Returned(last))
    => last.size = Elementwise(root, last.flags)

RecordAB == Struct(FALSE, <<U64, Vec(Usize, Repeat(Usize, 2), 10)>>)

C9Theorem ==
    (root.k = "enum" /\ Returned(last)) =>
        /\ last.size = SizeOf(root)
                + SumSeq([i \in 1..Len(root.fields) |->
                            MemSize(root.fields[i], last.flags, {}).s
                            - SizeOf(root.fields[i])])
        /\ (\A i \in 1..Len(root.fields) : HeapFree(root.fields[i]))
                => last.size = SizeOf(root)
        /\ root.variant = 3 =>
                last.size = SizeOf(root)
                    + PtrSize * (IF CAPACITY \in last.flags THEN root.fields[2].cap
                                 ELSE Len(root.fields[2].elems))

C9Witness ==
    /\ root.k = "enum" /\ root.variant = 3
    /\ Returned(last)
    /\ last.size > SizeOf(root)

\* C10: a rendering with max_depth = 0 that completes has written exactly one
\* line, the root's, and no line for a child or a variant.
C10Claim ==
    (dbg.made /\ dbg.max_depth = 0 /\ dbg.status = "ok")
    => /\ Len(dbg.lines) = 1
       /\ dbg.lines[1].kind = "node"
       /\ dbg.lines[1].level = 0

\* What a line contributes to the sink's text: the prefix from its third
\* character on, the branch glyph of a non-root node, the name, the size and
\* the padding; a variant line shows the prefix from its third byte on.
Printed(line) ==
    IF line.kind = "node"
    THEN [kind |-> "node",
          indent |-> IF line.prefix = <<>> THEN <<>> ELSE Tail(line.prefix),
          glyph |-> IF line.prefix = <<>> THEN "" ELSE IF line.last THEN "end" ELSE "tee",
          name |-> line.name, size |-> line.size, padding |-> line.padding,
          ref |-> line.ref]
    ELSE IF line.kind = "variant"
    THEN [kind |-> "variant", indent |-> Tail(line.prefix), variant |-> line.variant]
    ELSE line

Text(lines) == [i \in 1..Len(lines) |-> Printed(lines[i])]

\* C11: with max_depth = usize::MAX the depth-limited entry points write the
\* text of the unbounded ones and end the same way: mem_dbg_depth_on as
\* mem_dbg_on, mem_dbg_depth as mem_dbg.
C11Claim ==
    (dbg.made /\ dbg.max_depth = UsizeMax
        /\ dbg.entry \in {"mem_dbg_depth_on", "mem_dbg_depth"})
    => /\ Text(dbg.lines) =
            Text(MemDbgEntry(IF dbg.entry = "mem_dbg_depth_on" THEN "mem_dbg_on"
                             ELSE "mem_dbg", root, UsizeMax, dbg.flags).w)
       /\ dbg.status =
            MemDbgEntry(IF dbg.entry = "mem_dbg_depth_on" THEN "mem_dbg_on"
                        ELSE "mem_dbg", root, UsizeMax, dbg.flags).st

\* The node lines of a rendering, and those of them at level d or above it.
NodeLines(lines) == SelectSeq(lines, LAMBDA l : l.kind = "node")
UpTo(lines, d) == SelectSeq(lines, LAMBDA l : l.level <= d)

\* The unbounded rendering by the entry point's own root arguments.
Unbounded(entry, fl) == MemDbgEntry(entry, root, UsizeMax, fl)

\* C12: a depth-limited rendering that completes has a line for exactly the
\* nodes at nesting levels 0..max_depth (the root being level 0), whichever
\* children are last and whichever entry point is used.
C12Claim ==
    (dbg.made /\ dbg.status = "ok"
        /\ dbg.entry \in {"mem_dbg_depth_on", "mem_dbg_depth"})
    => Text(NodeLines(dbg.lines)) =
        Text(UpTo(NodeLines(Unbounded(dbg.entry, dbg.flags).w), dbg.max_depth))

\* a is b with some of its elements removed
RECURSIVE IsSubseq(_, _)
IsSubseq(a, b) ==
    IF a = <<>> THEN TRUE
    ELSE IF b = <<>> THEN FALSE
    ELSE IF Head(a) = Head(b) THEN IsSubseq(Tail(a), Tail(b))
    ELSE IsSubseq(a, Tail(b))

\* The rendering made is the complete rendering u with lines removed, and
\* shows the same total.
PrunedFrom(u) ==
    u.st = "ok" => /\ IsSubseq(Text(dbg.lines), Text(u.w))
                   /\ dbg.lines[1].size = u.w[1].size

\* C13: when a depth-limited rendering and the unbounded one both complete,
\* the depth-limited text is the unbounded text with lines removed: every line
\* it has is a line of the unbounded rendering, in the same order and with
\* the same size, and the root's line shows the same total.
C13Claim ==
    (dbg.made /\ dbg.status = "ok"
        /\ dbg.entry \in {"mem_dbg_depth_on", "mem_dbg_depth"})
    => PrunedFrom(Unbounded(dbg.entry, dbg.flags))

\* the lines at which a write was refused
Failed(lines) == { i \in 1..Len(lines) : lines[i].kind = "failed" }

\* C14: a rendering on the caller's sink returns the error as soon as a
\* write is refused (the refused write is the last thing attempted on the
\* sink, nothing is visited after it, and the call's result is the error),
\* and returns Ok when no write is refused.
C14Claim ==
    (dbg.made /\ dbg.entry \in {"mem_dbg_on", "mem_dbg_depth_on"})
    => /\ Failed(dbg.lines) \subseteq {Len(dbg.lines)}
       /\ Failed(dbg.lines) # {} => dbg.status = "err"
       /\ Failed(dbg.lines) = {} => dbg.status = "ok"

\* C15: on a sink that accepts every write, rendering a derived record or sum
\* type by mem_dbg_on or mem_dbg_depth_on returns Ok, whatever the depth and
\* the flags.
C15Claim ==
    (dbg.made /\ sink = Reliable /\ root.k \in {"struct", "enum"}
        /\ dbg.entry \in {"mem_dbg_on", "mem_dbg_depth_on"})
    => dbg.status = "ok"

\* The bucket count the claim gives for n elements, the n a call uses, and the
\* size of a set whose table has b buckets.
ClaimBuckets(n) ==
    IF n = 0 THEN 0
    ELSE IF n \in 1..3 THEN 4
    ELSE IF n \in 4..7 THEN 8
    ELSE CHOOSE p \in {2, 4, 8, 16, 32, 64, 128} :
            p >= (n * 8) \div 7 /\ p \div 2 < (n * 8) \div 7

CountedLen(v, fl) == IF CAPACITY \in fl THEN v.cap ELSE Len(v.elems)

SetSize(v, fl, b) ==
    HashSetHeader
        + SumSeq([i \in 1..Len(v.elems) |-> TopMemSize(v.elems[i], fl, {}).s])
        + (b - Len(v.elems)) * SizeOf(v.proto)
        + b + (IF b > 0 THEN GROUP_WIDTH ELSE 0)

\* C16 as stated: the table of a hash set is counted with 0 buckets for n = 0,
\* 4 for 1..3, 8 for 4..7 and the next power of two of n*8/7 above that (n the
\* length, or the capacity under CAPACITY); every empty set reports the
\* header alone; a set of 1..7 elements filled to its capacity is counted
\* with 4 or 8 buckets.
C16Claim ==
    (Returned(last) /\ root.k = "hashset")
    => /\ last.size = SetSize(root, last.flags, ClaimBuckets(CountedLen(root, last.flags)))
       /\ Len(root.elems) = 0 => last.size = HashSetHeader
       /\ (Len(root.elems) \in 1..7 /\ root.cap = Len(root.elems))
            => last.size \in {SetSize(root, last.flags, 4), SetSize(root, last.flags, 8)}

\* C16 amended: as C16Claim, but an empty set reports the header alone only
\* when its counted length is 0, that is in length mode or with no capacity
\* allocated.
C16Theorem ==
    (Returned(last) /\ root.k = "hashset")
    => /\ last.size = SetSize(root, last.flags, ClaimBuckets(CountedLen(root, last.flags)))
       /\ (Len(root.elems) = 0 /\ CountedLen(root, last.flags) = 0)
            => last.size = HashSetHeader
       /\ (Len(root.elems) \in 1..7 /\ root.cap = Len(root.elems))
            => last.size \in {SetSize(root, last.flags, 4), SetSize(root, last.flags, 8)}

\* a set of eight or more elements with spare capacity, measured under CAPACITY
C16Witness ==
    /\ Returned(last) /\ root.k = "hashset"
    /\ CAPACITY \in last.flags
    /\ Len(root.elems) >= 8 /\ root.cap > Len(root.elems)

\* An ordered container's entries, key type and value type, the heap its
\* entries own beyond their stack size, and the footprint of a full leaf.
TreeEntries(v) == IF v.k = "btreeset" THEN v.elems ELSE v.keys \o v.vals
TreeLen(v) == IF v.k = "btreeset" THEN Len(v.elems) ELSE Len(v.keys)
KeyType(v) == IF v.k = "btreeset" THEN v.proto ELSE v.kproto
ValueType(v) == IF v.k = "btreeset" THEN Unit ELSE v.vproto

ExtraHeap(v, fl) ==
    SumSeq([i \in 1..Len(TreeEntries(v)) |->
                TopMemSize(TreeEntries(v)[i], fl, {}).s - SizeOf(TreeEntries(v)[i])])

FullLeaf(K, V) ==
    AlignUp(AlignUp(16, AlignOf(K)) + 11 * SizeOf(K), AlignOf(V)) + 11 * SizeOf(V)

WeightedAverage(K, V) ==
    (6 * FullLeaf(K, V) + (AlignUp(FullLeaf(K, V), 8) + 12 * 8)) \div 7

C18Claim ==
    (Returned(last) /\ last.flags = {} /\ root.k \in {"btreeset", "btreemap"})
    => last.size =
        BTreeHeader
          + SumSeq([i \in 1..Len(TreeEntries(root)) |->
                        TopMemSize(TreeEntries(root)[i], {}, {}).s])

\* C19: a String measures its header plus its length, or plus its capacity
\* under CAPACITY; a str measures its length in bytes and nothing more.
C19Claim ==
    /\ (Returned(last) /\ root.k = "string")
        => last.size = StringHeader
                        + (IF CAPACITY \in last.flags THEN root.cap ELSE root.len)
    /\ (Returned(last) /\ root.k = "str") => last.size = root.len

\* C20: a primitive scalar measures its type's stack size, whatever its value
\* and whatever the flags.
C20Theorem ==
    (Returned(last) /\ root.k = "scalar")
    => /\ <<root.ty, last.size>> \in PrimitiveTypes
       /\ Returned(prev) => prev.size = last.size

\* a scalar measured twice, with CAPACITY and FOLLOW_REFS and then without
C20Witness ==
    /\ Returned(last) /\ Returned(prev)
    /\ root.k = "scalar" /\ root.ty = "u128" /\ root.val = "second"
    /\ prev.flags = {CAPACITY, FOLLOW_REFS} /\ last.flags = {}

\* The tuple's size and, for each component, what the component measures on
\* its own beyond its stack size.
ComponentSum(v, fl) ==
    SizeOf(v)
      + SumSeq([i \in 1..Len(v.fields) |->
                    MemSize(v.fields[i], fl, {}).s - SizeOf(v.fields[i])])

\* No address is followed from two components.
DisjointComponents(v, fl) ==
    \A i, j \in 1..Len(v.fields) :
        i # j => DOMAIN MemSize(v.fields[i], fl, {}).refs
                    \cap DOMAIN MemSize(v.fields[j], fl, {}).refs = {}

\* (u8, u64) and a record that wraps it
IsPadded(v) ==
    \/ v = Tuple(<<U8, U64>>)
    \/ v = Struct(FALSE, <<Tuple(<<U8, U64>>)>>)

Declared(di) == IF di.data = "Enum" THEN Len(di.variants) ELSE di.fields.n

PointerLines(lines) ==
    SelectSeq(lines, LAMBDA l : l.kind = "node" /\ l.ref.display # "None")

\* the first line about an address is a first encounter, each later one a
\* back-reference
MarkedInOrder(ls) ==
    \A i \in 1..Len(ls) :
        ls[i].ref.display =
            IF \E j \in 1..(i - 1) : ls[j].ref.ptr = ls[i].ref.ptr
            THEN "BackReference" ELSE "FirstEncounter"

FirstEncounters(ls) ==
    { ls[i].ref.ptr : i \in { j \in 1..Len(ls) : ls[j].ref.display = "FirstEncounter" } }

\* a pointee's line (it has no field name) comes right after the line of a
\* first encounter, one level above it
PointeeAfterFirst(lines) ==
    \A i \in 1..Len(lines) :
        (lines[i].kind = "node" /\ lines[i].level > 0 /\ lines[i].name = "")
        => /\ lines[i - 1].kind = "node"
           /\ lines[i - 1].ref.display = "FirstEncounter"
           /\ lines[i - 1].level = lines[i].level - 1

\* C23: in a completed rendering, for each address the first pointer line is
\* a first encounter and every later one a back-reference; the visited set
\* holds exactly the addresses of the first encounters, and a pointee is
\* rendered only right below a first encounter; with both follow flags clear
\* there is no marker, the visited set is empty and no pointee is rendered.
C23Claim ==
    (dbg.made /\ dbg.status = "ok") =>
        /\ MarkedInOrder(PointerLines(dbg.lines))
        /\ dbg.dbg_refs = FirstEncounters(PointerLines(dbg.lines))
        /\ PointeeAfterFirst(dbg.lines)
        /\ (dbg.flags \cap {FOLLOW_REFS, FOLLOW_RC} = {})
            => /\ PointerLines(dbg.lines) = <<>>
               /\ dbg.dbg_refs = {}

\* the root is a reference, Rc or Arc that the call's flags follow
FollowedRoot(c) ==
    /\ c.made
    /\ root.k \in {"ref", "refmut", "rc", "arc"}
    /\ FollowFlag(root) \in c.flags

\* C24: when a traversal follows a reference, Rc or Arc, the pointer's
\* address is in the visited-address table when the traversal enters the
\* pointee, so a pointee that leads back to the same address is not entered
\* again and the call returns with the address in the table.
C24Claim ==
    FollowedRoot(last) =>
        /\ root.addr \in DOMAIN AtPointee(EmptyRefs, root)
        /\ last.returned
        /\ root.addr \in DOMAIN table

\* what a value holds directly: fields, elements, the wrapped value, the
\* pointee
Held(v) ==
    CASE v.k \in {"tuple", "struct", "enum"} -> { v.fields[i] : i \in 1..Len(v.fields) }
      [] v.k \in {"array", "vec", "vecdeque", "hashset", "btreeset"} ->
            { v.elems[i] : i \in 1..Len(v.elems) }
      [] v.k = "btreemap" ->
            { v.keys[i] : i \in 1..Len(v.keys) } \cup { v.vals[i] : i \in 1..Len(v.vals) }
      [] v.k \in {"box", "cell", "refcell", "guard"} -> {v.inner}
      [] v.k \in {"option", "oncecell"} -> IF v.some THEN {v.inner} ELSE {}
      [] v.k = "range" -> {v.start, v.end}
      [] v.k \in {"ref", "refmut", "rc", "arc"} -> {heap[v.to]}
      [] OTHER -> {}

\* every value a traversal of the root can reach
RECURSIVE PartsFrom(_, _)
PartsFrom(todo, seen) ==
    IF todo = {} THEN seen
    ELSE PartsFrom(UNION { Held(v) : v \in todo } \ (seen \cup todo), seen \cup todo)

Parts == PartsFrom({root}, {})

\* a traversal of v that returns, returns at least size_of of v's type
AtLeastSizeOf(r, v) == r.div \/ r.s >= SizeOf(v)

\* C25: for every value of a sized type reached from the root and the flags
\* of the call, mem_size_rec (from an empty table and from the table the
\* call left) and mem_size return at least size_of of the value's type, so
\* no 'mem_size(child) - size_of(child type)' is negative.
C25Theorem ==
    Returned(last) =>
        /\ last.size >= SizeOf(root)
        /\ \A v \in Parts :
              v.k # "str" =>
                /\ AtLeastSizeOf(MemSizeRec(v, last.flags, EmptyRefs, {}), v)
                /\ AtLeastSizeOf(MemSizeRec(v, last.flags, table, {}), v)
                /\ AtLeastSizeOf(MemSize(v, last.flags, {}), v)

\* an OnceCell that is set, inside a record: the subtraction was made and
\* the heap memory of the String is counted
C25Witness ==
    /\ Returned(last)
    /\ root = Struct(FALSE, <<OnceCell(TRUE, Str(MaxLen, MaxLen + MaxSlack))>>)
    /\ last.size = SizeOf(root) + MaxLen

\* the lines of the root's children, in the order they were written
Children(lines) == SelectSeq(lines, LAMBDA l : l.kind = "node" /\ l.level = 1)

\* the field a child's line names
FieldOf(line) == CHOOSE i \in 1..Len(root.fields) : ToString(i - 1) = line.name

\* C26: a completed rendering of a derived record with n >= 1 fields has one
\* child line per field (none when the depth limit prunes the children, all
\* of them when there is no limit), in declaration order by default and in
\* non-decreasing offset order under RUST_LAYOUT, and exactly the last child
\* written is marked as the last.
C26Theorem ==
    (dbg.made /\ dbg.status = "ok" /\ root.k = "struct") =>
        /\ Len(Children(dbg.lines)) \in {0, Len(root.fields)}
        /\ dbg.max_depth = UsizeMax => Len(Children(dbg.lines)) = Len(root.fields)
        /\ \A i \in 1..Len(Children(dbg.lines)) :
              /\ Children(dbg.lines)[i].last <=> (i = Len(root.fields))
              /\ RUST_LAYOUT \notin dbg.flags
                    => Children(dbg.lines)[i].name = ToString(i - 1)
              /\ \A j \in 1..(i - 1) :
                    /\ Children(dbg.lines)[j].name # Children(dbg.lines)[i].name
                    /\ RUST_LAYOUT \in dbg.flags
                        => Offsets(root.fields)[FieldOf(Children(dbg.lines)[j])]
                            <= Offsets(root.fields)[FieldOf(Children(dbg.lines)[i])]

\* a record whose offset order is not its declaration order, under RUST_LAYOUT
C26Witness ==
    /\ dbg.made /\ dbg.status = "ok"
    /\ root = Struct(FALSE, <<U8, U64>>)
    /\ RUST_LAYOUT \in dbg.flags
    /\ Len(Children(dbg.lines)) = 2
    /\ Children(dbg.lines)[1].name = "1"
    /\ Children(dbg.lines)[2].last

\* the segment pushed on the prefix under a node's line
SegmentOf(line) == IF line.last THEN "sp" ELSE "bar"

\* the node under which the i-th line was written: the closest node line
\* before it that is one level up
ParentOf(lines, i) ==
    CHOOSE j \in 1..(i - 1) :
        /\ lines[j].kind = "node" /\ lines[j].level = lines[i].level - 1
        /\ \A k \in (j + 1)..(i - 1) :
              ~(lines[k].kind = "node" /\ lines[k].level = lines[i].level - 1)

\* the lines written directly under the root's line
UnderRoot(lines) ==
    SelectSeq(lines, LAMBDA l : l.kind = "node" /\ l.prefix = <<SegmentOf(lines[1])>>)

\* C27: the prefix is a stack. Every line below the root is written with
\* the prefix of the node it belongs to extended by exactly one segment
\* (blanks if that node is the last child, the bar otherwise); a subtree,
\* pruned or not, leaves the prefix as it found it, so every field of a
\* tuple or record is written with the same prefix, and when the rendering
\* returns Ok the prefix is the one it was entered with.
C27Theorem ==
    (dbg.made /\ dbg.status = "ok") =>
        /\ dbg.prefix = <<>>
        /\ \A i \in 1..Len(dbg.lines) :
              dbg.lines[i].level >= 1 =>
                dbg.lines[i].prefix
                    = Append(dbg.lines[ParentOf(dbg.lines, i)].prefix,
                             SegmentOf(dbg.lines[ParentOf(dbg.lines, i)]))
        /\ ( /\ root.k \in {"tuple", "struct"}
             /\ dbg.max_depth >= SegBytes(SegmentOf(dbg.lines[1])) )
              => Len(UnderRoot(dbg.lines)) = Len(root.fields)

\* a first field whose own field is cut by the depth limit, followed by a
\* sibling that is written with the prefix the first field was written with
C27Witness ==
    /\ dbg.made /\ dbg.status = "ok"
    /\ root = Tuple(<<Tuple(<<Ref(1, 1)>>), Ref(1, 1)>>)
    /\ dbg.entry = "mem_dbg_depth" /\ dbg.max_depth = 2
    /\ Len(dbg.lines) = 3
    /\ dbg.lines[2].prefix = <<"sp">> /\ ~dbg.lines[2].last
    /\ dbg.lines[3].prefix = <<"sp">> /\ dbg.lines[3].last
    /\ dbg.prefix = <<>>

\* the traversal is at a lock() or read() that has not returned
AtLock == sync.pc \in {"waiting", "blocked"}

\* The traversal holds the lock exactly while it visits the guarded value,
\* and never together with an exclusive holder.
LockDiscipline ==
    /\ sync.held <=> sync.pc = "visiting"
    /\ ~(sync.held /\ sync.other = "write")

\* A step of the traversal that is not a panic leaves the rest of the lock
\* (the other thread's hold, the poison flag) as it was.
Restores ==
    [][(sync'.pc # sync.pc /\ sync'.pc # "panicked")
          => /\ sync'.other = sync.other
             /\ sync'.poisoned = sync.poisoned
             /\ sync'.turns = sync.turns]_vars

\* C28 as stated: a traversal that reaches a Mutex or RwLock takes it as any
\* thread would, holds it only during the visit, waits while another thread
\* holds it and then completes, leaving the lock as it was.
C28Claim ==
    /\ []LockDiscipline
    /\ Restores
    /\ AtLock ~> (sync.pc = "done")

\* C28, amended: the traversal waits while another thread holds the lock
\* exclusively and then either panics, because the lock is poisoned or the
\* visit of the guarded value panics, or completes; it holds the lock only
\* during the visit, and a traversal that completes leaves the lock as it
\* was.
C28Theorem ==
    /\ []LockDiscipline
    /\ Restores
    /\ AtLock ~> (sync.pc \in {"done", "panicked"})
    /\ [](sync.pc = "panicked"
            => sync.poisoned \/ (dbg.made /\ dbg.status = "panic"))

\* the traversal slept on a Mutex held by the other thread and completed
C28Witness ==
    /\ sync.pc = "done" /\ sync.slept
    /\ root = Mutex(Str(1, MaxLen))
    /\ sync.call.entry = "mem_dbg"
    /\ dbg.made /\ dbg.status = "ok"
    /\ ~sync.held /\ ~sync.poisoned

\* the padded sizes the root's fields are rendered with, by field
PaddedSizes == IdSizes(root.fields, SizeOf(root), FALSE)

\* C29: in the debug tree of a record or a tuple every field's padded size
\* is at least the field's own size, zero-sized fields sharing an offset
\* included, so the padding of no line underflows (no panic, no wrapped
\* value), and the padded sizes add up to the size of the whole type.
C29Claim ==
    (dbg.made /\ root.k \in {"tuple", "struct"}) =>
        /\ \A i \in 1..Len(root.fields) :
              PaddedSizes[i].padded >= SizeOf(root.fields[i])
        /\ SumSeq([i \in 1..Len(root.fields) |-> PaddedSizes[i].padded]) = SizeOf(root)
        /\ dbg.status # "panic"
        /\ \A i \in 1..Len(dbg.lines) :
              dbg.lines[i].kind = "node" => dbg.lines[i].padding <= SizeOf(root)

\* a pair of followed pointers that hold one address and differ in their
\* kind or in their pointee
SameAddress(v, fl) ==
    /\ v.k = "tuple" /\ Len(v.fields) = 2
    /\ \A i \in 1..2 : v.fields[i].k \in {"ref", "rc", "arc"} /\ FollowFlag(v.fields[i]) \in fl
    /\ v.fields[1].addr = v.fields[2].addr
    /\ v.fields[1].k # v.fields[2].k \/ v.fields[1].to # v.fields[2].to

\* the pair with its two fields exchanged
Permuted(v) == Tuple(<<v.fields[2], v.fields[1]>>)

\* C30: mem_size does not depend on the order of the fields: a pair of
\* followed pointers with one address and different pointees or kinds has
\* the mem_size of the pair with the fields exchanged.
C30Claim ==
    (Returned(last) /\ SameAddress(root, last.flags))
        => last.size = MemSize(Permuted(root), last.flags, {}).s

====
